---- MODULE Spec2Model ----
(***************************************************************************)
(* Flow Path & Narrative Analysis Engine (src/path_parser.py).             *)
(*                                                                         *)
(* The Step-Thread analysis of parse_all_paths_dict / parse_all_paths is   *)
(* modelled as a state machine: one action per phase of the function and   *)
(* one action per iteration of its loops.  The two functions share their   *)
(* code up to the linear->junction links (steps 1..6a are the same text);  *)
(* they differ in step 6b and in the rendering, which are modelled apart.  *)
(* The iteration order of Python's sets of node ids (junction_nodes,       *)
(* linear_starts) is not fixed by the program: every order is a behaviour. *)
(***************************************************************************)
EXTENDS Integers, Sequences, FiniteSets, TLC

\* ------------------------------------------------------------------ bounds
\* at most this many connections in a schema of valid connections
MaxConns == 3
\* at most this many connections in a schema with invalid connections
MaxAnomConns == 2

\* the ids the nodes of a schema are drawn from
NodeIds == {"a", "b", "c"}
\* an id that a connection can carry although no node has it
Missing == "x"
\* Python's None, where a node id is expected
None == "None"

\* float('inf'): larger than every coordinate of the model
Inf == 1000
\* a coordinate that float() rejects (None, a non-numeric string)
NoCoord == -1

VARIABLES
  schema,                 \* the FlowSchema under analysis (never modified)
  pc,                     \* position in the analysis
  nodes_dict,             \* ids of the nodes kept by the preprocessing
  outgoing_connections,   \* node id -> sequence of edges leaving it
  incoming_connections,   \* node id -> sequence of edges entering it
  processed_nodes,        \* nodes included in any path segment
  path_counter,           \* next temporary path id
  initial_junction_paths, \* the junction threads, in creation order
  linear_starts,          \* the linear starts the for loop has not visited yet
  trace,                  \* the running linear trace (locals of the while loop)
  finished_linear_paths,  \* the linear threads, in creation order
  complete_paths,         \* all threads, sorted, with their final ids
  path_connections,       \* final id -> 'continues in' links (parse_all_paths_dict)
  text_path_connections,  \* final id -> 'continues in' links (parse_all_paths)
  result,                 \* how parse_all_paths_dict ended: "none", "ok", "error", "raised"
  text_result,            \* how parse_all_paths ended: "none", "ok", "error", "raised"
  first_run,              \* the output of the previous run on this schema
  section_of,             \* final id -> the Section the structured output lists the thread under
  text_section_of,        \* final id -> the Section the text output lists the thread under
  final_dict,             \* final_dict of parse_all_paths_dict: sections, standalone_threads, summary
  wrapper,                \* the JSON entry point that was called, "none" for a direct call
  json_data,              \* the text given to the JSON entry point
  returned,               \* what the JSON entry point returned, or the exception it let through
  now,                    \* time.time(), in seconds
  session_store,          \* the global SecureSessionStore: its two maps and _last_cleanup
  issued,                 \* how many session ids secrets.token_urlsafe has produced
  last_call,              \* the last call on the session store and what it returned
  session_state,          \* browser session -> st.session_state._secure_auth_session_id (0: not set)
  secure_user,            \* the global SecureAuthenticatedUser: _cached_data and _cache_expiry
  login_result,           \* the last call of secure_silent_login_and_get_user_info
  data_result,            \* the last call of secure_user.get_data from a page
  threads,                \* thread -> the store operation it runs and its position in it
  failure,                \* the exception a thread's operation raised, "none" so far
  oauth,                  \* browser session -> st.session_state._oauth_state / _oauth_manager
  oauth_states,           \* how many state values secrets.token_urlsafe has generated
  callback,               \* the last call of handle_oauth_callback and what it returned
  granted,                \* the sessions created by callbacks, with the state each carried
  token_call,             \* the running or last call of get_access_token
  single,                 \* the locals of parse_single_path_from_lowest_x
  retry                   \* the locals of generate_with_retry and the calls it has made

vars == <<schema, pc, nodes_dict, outgoing_connections, incoming_connections,
          processed_nodes, path_counter, initial_junction_paths, linear_starts,
          trace, finished_linear_paths, complete_paths, path_connections,
          text_path_connections, result, text_result, first_run, section_of,
          text_section_of, final_dict,
          wrapper, json_data, returned, now, session_store, issued, last_call,
          session_state, secure_user, login_result, data_result, threads, failure,
          oauth, oauth_states, callback, granted, token_call, single, retry>>

\* the variables of the JSON entry points
json_vars == <<wrapper, json_data, returned>>

\* the variables of the OAuth flow and of the access-token calls
oauth_vars == <<oauth, oauth_states, callback, granted, token_call>>

\* the variables of the browser sessions and of the global user proxy
login_vars == <<session_state, secure_user, login_result, data_result, oauth_vars>>

\* the variables of the single-path tracer and of the retry helper
tool_vars == <<single, retry>>

\* the variables of the threads that work on the session store
thread_vars == <<threads, failure>>

\* the variables of the session store and of its users
store_vars == <<now, session_store, issued, last_call, login_vars, thread_vars>>

\* ------------------------------------------------------------------ schemas
Range(f) == {f[i] : i \in DOMAIN f}

\* interface names: the k-th connection of a schema leaves "o<k>" and enters "i<k>"
OutNames == <<"o1", "o2", "o3", "o4", "o5">>
InNames == <<"i1", "i2", "i3", "i4", "i5">>

\* the k-th connection of a schema; shape = <<outputNode, inputNode, kind>>
MkConn(k, shape) ==
  [id |-> k, outputNode |-> shape[1], inputNode |-> shape[2],
   outputNodeInterface |-> IF shape[3] = "no_out" THEN "" ELSE OutNames[k],
   inputNodeInterface |-> IF shape[3] = "no_in" THEN "" ELSE InNames[k]]

\* the sequences of m connections of the given shapes
ConnSeqs(shapes, m) == {[k \in 1..m |-> MkConn(k, f[k])] : f \in [1..m -> shapes]}

\* The layouts of a schema: <<x, y>> per node.  Every assignment of node types
\* and every sequence of connections is enumerated, so a layout stands for all
\* its renamings.  Spread: distinct positions, two of them with the same x.
\* Unplaced: no node has a position.  Mixed: one node lacks y, one lacks x.
Spread == [a |-> <<0, 0>>, b |-> <<0, 1>>, c |-> <<1, 0>>]
Unplaced == [a |-> <<NoCoord, NoCoord>>, b |-> <<NoCoord, NoCoord>>, c |-> <<NoCoord, NoCoord>>]
Mixed == [a |-> <<1, 0>>, b |-> <<0, NoCoord>>, c |-> <<NoCoord, 0>>]
Layouts == {Spread, Unplaced, Mixed}

NodeSets == {{}, {"a"}, {"a", "b"}, {"a", "b", "c"}}

MkSchema(ids, type, layout, conns) ==
  [nodes |-> ids, type |-> type, x |-> [n \in ids |-> layout[n][1]],
   y |-> [n \in ids |-> layout[n][2]], connections |-> conns]

\* topology family: every sequence of valid connections; a schema whose nodes
\* have positions gets one connection fewer than a schema without positions
\* (without positions every order of the linear starts is a behaviour)
IsTopoSchema(sch) ==
  \E ids \in NodeSets : \E t \in [ids -> {"Node", "Section"}] : \E l \in Layouts :
    \E m \in 0..(IF l = Unplaced THEN MaxConns ELSE MaxConns - 1) :
      \E c \in ConnSeqs(ids \X ids \X {"full"}, m) :
        sch = MkSchema(ids, t, l, c)

\* layout family: two nodes at every pair of positions
PosChoices == {<<0, 0>>, <<0, 1>>, <<1, 0>>, <<1, NoCoord>>, <<NoCoord, 0>>}
IsLayoutSchema(sch) ==
  \E t \in [{"a", "b"} -> {"Node", "Section"}] : \E pa \in PosChoices : \E pb \in PosChoices :
    \E m \in 0..(MaxConns - 1) :
      \E c \in ConnSeqs({"a", "b"} \X {"a", "b"} \X {"full"}, m) :
        sch = MkSchema({"a", "b"}, t, [a |-> pa, b |-> pb], c)

\* anomaly family: connections that lack an interface name, and connections to
\* or from an id no node has
AnomShapes ==
  ({"a", "b"} \X {"a", "b"} \X {"full", "no_out", "no_in"})
    \cup ({"a", "b"} \X {Missing} \X {"full"})
    \cup ({Missing} \X {"a", "b"} \X {"full"})
IsAnomSchema(sch) ==
  \E t \in [{"a", "b"} -> {"Node", "Section"}] :
    \E m \in 0..MaxAnomConns : \E c \in ConnSeqs(AnomShapes, m) :
      sch = MkSchema({"a", "b"}, t, Spread, c)

\* half-valid family: three placed nodes, valid connections and connections
\* from node a that lack the name of the input interface
HalfShapes ==
  (NodeIds \X NodeIds \X {"full"}) \cup ({"a"} \X {"b", "c"} \X {"no_in"})
IsHalfSchema(sch) ==
  \E m \in 0..MaxConns : \E c \in ConnSeqs(HalfShapes, m) :
    sch = MkSchema(NodeIds, [n \in NodeIds |-> "Node"], Spread, c)

\* ------------------------------------------------------------------ helpers
\* Python truthiness of an id or an interface name
Truthy(s) == s # "" /\ s # None

\* dict.get(node_id, []) on an adjacency map
Get(adj, node_id) == IF node_id \in DOMAIN adj THEN adj[node_id] ELSE <<>>

\* float(node.position.x): the try block of the preprocessing
ParsesX(node_id) == schema.x[node_id] # NoCoord
ParsesY(node_id) == schema.y[node_id] # NoCoord

\* the x the linear starts are ordered by: nodes_by_pos_x, inf when unparsable
StartPosX(nid) ==
  IF nid \in nodes_dict /\ ParsesX(nid) THEN schema.x[nid] ELSE Inf

\* the edges the preprocessing loop appends to outgoing_connections[node_id]
RECURSIVE OutgoingFrom(_, _)
OutgoingFrom(conns, node_id) ==
  IF conns = <<>> THEN <<>>
  ELSE LET conn == conns[Len(conns)]
           rest == OutgoingFrom(SubSeq(conns, 1, Len(conns) - 1), node_id)
       IN IF /\ Truthy(conn.outputNode) /\ Truthy(conn.inputNode)
             /\ Truthy(conn.outputNodeInterface)
             /\ conn.outputNode = node_id
          THEN Append(rest, [to_node |-> conn.inputNode,
                             from_interface |-> conn.outputNodeInterface,
                             to_interface |-> conn.inputNodeInterface,
                             connection_id |-> conn.id])
          ELSE rest

\* the edges the preprocessing loop appends to incoming_connections[node_id]
RECURSIVE IncomingTo(_, _)
IncomingTo(conns, node_id) ==
  IF conns = <<>> THEN <<>>
  ELSE LET conn == conns[Len(conns)]
           rest == IncomingTo(SubSeq(conns, 1, Len(conns) - 1), node_id)
       IN IF /\ Truthy(conn.inputNode) /\ Truthy(conn.outputNode)
             /\ Truthy(conn.inputNodeInterface)
             /\ conn.inputNode = node_id
          THEN Append(rest, [from_node |-> conn.outputNode,
                             to_interface |-> conn.inputNodeInterface,
                             from_interface |-> conn.outputNodeInterface,
                             connection_id |-> conn.id])
          ELSE rest

\* ------------------------------------------------------------------ classification
section_nodes == {n \in nodes_dict : schema.type[n] = "Section"}
branch_points ==
  {n \in nodes_dict : Len(Get(outgoing_connections, n)) > 1 /\ schema.type[n] # "Section"}
\* a classification that finds no merge point
merge_points_none == {}
merge_points ==
  {n \in nodes_dict : Len(Get(incoming_connections, n)) > 1 /\ schema.type[n] # "Section"}
\* a classification that forgets the branch points
junction_nodes_merge_only == merge_points
junction_nodes == merge_points \cup branch_points

root_nodes ==
  {n \in nodes_dict :
     LET incoming == Get(incoming_connections, n)
     IN \/ incoming = <<>>
        \/ /\ \A i \in DOMAIN incoming : incoming[i].from_node \in section_nodes
           /\ n \notin section_nodes}

\* the path type of the junction thread of j_id
JunctionType(j_id) ==
  IF j_id \in merge_points /\ j_id \in branch_points THEN "merge_and_branch_node"
  ELSE IF j_id \in merge_points THEN "merge_node"
  ELSE IF j_id \in branch_points THEN "branch_node"
  ELSE "unknown_junction"

\* step 4b: the candidate starts of the linear traces
LinearStartSet ==
  {r_id \in root_nodes : r_id \notin junction_nodes /\ r_id \notin section_nodes}
  \cup
  {next_id \in nodes_dict :
     /\ next_id \notin junction_nodes /\ next_id \notin section_nodes
     /\ \E source_id \in junction_nodes \cup section_nodes :
          \E i \in DOMAIN Get(outgoing_connections, source_id) :
            Get(outgoing_connections, source_id)[i].to_node = next_id}

\* ------------------------------------------------------------------ linear trace
\* the trace when no while loop is running
NoTrace == [current_node_id |-> None, current_path_nodes |-> <<>>,
            visited_in_this_trace |-> {}]

\* a trace that forgets the nodes it has put in its thread
added_never(processed, node_id) == processed
\* processed_nodes.add(node_id)
added(processed, node_id) == processed \cup {node_id}

\* a stored thread
PathInfo(path, type, temp_id, ends_at_junction, via_interface) ==
  [path |-> path, type |-> type, id |-> temp_id, temp_id |-> temp_id,
   ends_at_junction |-> ends_at_junction, via_interface |-> via_interface]

\* the termination checks of one iteration of the while loop, made after
\* current_node_id was appended and marked (visited and processed are the
\* sets after the marking)
TraceDecision(current_node_id, visited, processed) ==
  LET outgoing == Get(outgoing_connections, current_node_id)
      num_outgoing == Len(outgoing)
      is_current_section == current_node_id \in section_nodes
      true_branch == num_outgoing > 1 /\ ~is_current_section
      next_node_id == IF num_outgoing >= 1 /\ ~true_branch THEN outgoing[1].to_node ELSE None
      next_interface == IF num_outgoing >= 1 /\ ~true_branch
                        THEN outgoing[1].from_interface ELSE None
      ends(type, at, via) == [should_end_here |-> TRUE, end_type |-> type,
                              ends_at_junction |-> at, via_interface |-> via,
                              next_node_id |-> next_node_id]
  IN IF num_outgoing = 0 THEN ends("linear_endpoint", None, None)
     ELSE IF true_branch THEN ends("linear_to_branch", current_node_id, None)
     ELSE IF next_node_id = None /\ num_outgoing > 0 THEN ends("linear_error", None, None)
     ELSE IF next_node_id \in junction_nodes
          THEN ends("linear_to_junction", next_node_id, next_interface)
     ELSE IF next_node_id \in visited THEN ends("linear_cycle", None, None)
     ELSE IF next_node_id \in processed
          THEN ends("linear_reaches_processed", next_node_id, None)
     ELSE [should_end_here |-> FALSE, end_type |-> "linear_unknown",
           ends_at_junction |-> None, via_interface |-> None,
           next_node_id |-> next_node_id]

\* ------------------------------------------------------------------ sort and re-id
\* get_sort_key: (x, y) of the first node; a coordinate keeps inf from the
\* point where float() fails (x is parsed before y)
get_sort_key(path_info) ==
  LET path == path_info.path
      first_node_id == IF path # <<>> THEN path[1] ELSE None
  IN IF first_node_id \in nodes_dict /\ ParsesX(first_node_id)
     THEN IF ParsesY(first_node_id)
          THEN <<schema.x[first_node_id], schema.y[first_node_id]>>
          ELSE <<schema.x[first_node_id], Inf>>
     ELSE <<Inf, Inf>>

\* tuple comparison of two sort keys
KeyLess(k1, k2) == k1[1] < k2[1] \/ (k1[1] = k2[1] /\ k1[2] < k2[2])

\* sorted(paths, key = get_sort_key): a stable sort
RECURSIVE SortedPaths(_)
SortedPaths(paths) ==
  IF paths = <<>> THEN <<>>
  ELSE LET last == paths[Len(paths)]
           front == SortedPaths(SubSeq(paths, 1, Len(paths) - 1))
           keep == {i \in DOMAIN front : ~KeyLess(get_sort_key(last), get_sort_key(front[i]))}
           n == Cardinality(keep)
       IN SubSeq(front, 1, n) \o <<last>> \o SubSeq(front, n + 1, Len(front))

\* enumerate(complete_paths, 1): the final ids
ReId(paths) == [i \in DOMAIN paths |-> [paths[i] EXCEPT !.id = i]]

IsLinear(path_info) ==
  path_info.type \in {"linear_endpoint", "linear_to_branch", "linear_error",
                      "linear_to_junction", "linear_cycle",
                      "linear_reaches_processed", "linear_unknown"}
IsJunctionPath(path_info) ==
  path_info.type \in {"merge_node", "branch_node", "merge_and_branch_node"}

\* junction_path_final_map / linear_path_node_map: first node -> final id (0: no entry)
junction_path_final_map(node_id) ==
  LET hits == {i \in DOMAIN complete_paths :
                 IsJunctionPath(complete_paths[i]) /\ complete_paths[i].path[1] = node_id}
  IN IF hits = {} THEN 0 ELSE complete_paths[CHOOSE i \in hits : \A j \in hits : j <= i].id
linear_path_node_map(node_id) ==
  LET hits == {i \in DOMAIN complete_paths :
                 IsLinear(complete_paths[i]) /\ complete_paths[i].path[1] = node_id}
  IN IF hits = {} THEN 0 ELSE complete_paths[CHOOSE i \in hits : \A j \in hits : j <= i].id

\* ------------------------------------------------------------------ thread links
\* a step 6a that links with the id the junction thread had before the sort
LinearLinks_temp_id(path_info) ==
  IF path_info.type \in {"linear_to_junction", "linear_to_branch"}
  THEN LET hits == {i \in DOMAIN complete_paths :
                      /\ IsJunctionPath(complete_paths[i])
                      /\ complete_paths[i].path[1] = path_info.ends_at_junction}
       IN IF hits = {} THEN <<>>
          ELSE <<[path_id |-> complete_paths[CHOOSE i \in hits : TRUE].temp_id,
                  via_interface |-> path_info.via_interface]>>
  ELSE <<>>

\* step 6a (both functions): the link of a linear thread to the junction after it
LinearLinks(path_info) ==
  IF path_info.type \in {"linear_to_junction", "linear_to_branch"}
  THEN LET next_junction_id == path_info.ends_at_junction
           interface == IF Truthy(path_info.via_interface)
                        THEN path_info.via_interface ELSE "output"
       IN IF junction_path_final_map(next_junction_id) # 0
          THEN <<[path_id |-> junction_path_final_map(next_junction_id),
                  via_interface |-> interface]>>
          ELSE <<>>
  ELSE <<>>

\* step 6b of parse_all_paths_dict: the links along the outgoing edges of a junction
RECURSIVE JunctionLinks(_)
JunctionLinks(outgoing) ==
  IF outgoing = <<>> THEN <<>>
  ELSE LET conn == outgoing[Len(outgoing)]
           rest == JunctionLinks(SubSeq(outgoing, 1, Len(outgoing) - 1))
           next_node_id == conn.to_node
           target_path_id ==
             IF junction_path_final_map(next_node_id) # 0
             THEN junction_path_final_map(next_node_id)
             ELSE linear_path_node_map(next_node_id)
       IN IF target_path_id # 0
          THEN Append(rest, [path_id |-> target_path_id,
                             via_interface |-> conn.from_interface])
          ELSE rest

\* path_connections of parse_all_paths_dict, per final id
DictConnections ==
  [i \in DOMAIN complete_paths |->
     LET path_info == complete_paths[i]
     IN IF IsLinear(path_info) THEN LinearLinks(path_info)
        ELSE IF IsJunctionPath(path_info)
             THEN JunctionLinks(Get(outgoing_connections, path_info.path[1]))
             ELSE <<>>]

\* `junction_node_id in path_connections` in step 6b of parse_all_paths: the
\* keys of path_connections are final path ids (integers), junction_node_id is
\* a node id (a string), so the test is never true and the loop body is skipped
NodeIdIsPathKey(junction_node_id) == FALSE

\* path_connections of parse_all_paths, per final id
TextConnections ==
  [i \in DOMAIN complete_paths |->
     LET path_info == complete_paths[i]
     IN IF IsLinear(path_info) THEN LinearLinks(path_info)
        ELSE IF IsJunctionPath(path_info) /\ NodeIdIsPathKey(path_info.path[1])
             THEN JunctionLinks(Get(outgoing_connections, path_info.path[1]))
             ELSE <<>>]

\* ------------------------------------------------------------------ rendering
\* nodes_dict[node_id] in the step loop of parse_all_paths: a KeyError for an id no node has
TextRaises ==
  \E i \in DOMAIN complete_paths : \E k \in DOMAIN complete_paths[i].path :
    complete_paths[i].path[k] \notin nodes_dict

\* section_pos_map: the position of a Section, (inf, inf) when x or y does not parse
section_pos_map(sid) ==
  IF ParsesX(sid) /\ ParsesY(sid) THEN <<schema.x[sid], schema.y[sid]>> ELSE <<Inf, Inf>>

\* sorted(section_info_list) of the summary: the entries are (pos_y, pos_x, dict);
\* two Sections with the same position make Python compare the dicts: a TypeError
SummaryRaises ==
  \E s \in section_nodes : \E t \in section_nodes :
    s # t /\ section_pos_map(s) = section_pos_map(t)

\* parse_all_paths_dict ends with an exception: the KeyError of nodes_dict[node_id]
\* in the step loop of a thread, or the TypeError of the summary
DictRaises ==
  \/ \E i \in DOMAIN complete_paths : \E k \in DOMAIN complete_paths[i].path :
       LET node_id == complete_paths[i].path[k]
       IN node_id \notin section_nodes /\ node_id \notin nodes_dict
  \/ SummaryRaises

\* sorted(section_nodes, key = position) keeps Sections at the same position in
\* the set's iteration order: a rank per Section stands for that order
SectionRanks ==
  {r \in [section_nodes -> 1..Cardinality(section_nodes)] :
     \A s \in section_nodes : \A t \in section_nodes : r[s] = r[t] => s = t}

\* the Section a thread is listed under: the last Section, in sorted order,
\* whose x is not right of the x of the thread's first node; None = standalone
assigned_section_id(path_info, rank) ==
  LET first_node_pos_x == get_sort_key(path_info)[1]
      left == {s \in section_nodes : section_pos_map(s)[1] <= first_node_pos_x}
      last == {s \in left : \A t \in left :
                 /\ ~KeyLess(section_pos_map(s), section_pos_map(t))
                 /\ section_pos_map(s) = section_pos_map(t) => rank[t] <= rank[s]}
  IN IF first_node_pos_x = Inf \/ left = {} THEN None
     ELSE IF path_info.path[1] \in left THEN path_info.path[1]
     ELSE CHOOSE s \in last : TRUE

\* the labels a Section node can carry; two Sections can carry the same label
SectionLabels == {"L1", "L2"}

\* sorted_section_ids: the Sections by position, Sections at the same position
\* in the set's iteration order
sorted_section_ids(rank) ==
  LET Before(s, t) ==
        \/ KeyLess(section_pos_map(s), section_pos_map(t))
        \/ section_pos_map(s) = section_pos_map(t) /\ rank[s] < rank[t]
  IN [k \in 1..Cardinality(section_nodes) |->
        CHOOSE s \in section_nodes :
          Cardinality({t \in section_nodes : Before(t, s)}) = k - 1]

\* section_order: the labels of the sorted Sections, a shared label once per Section
section_order(rank, label) ==
  [k \in 1..Cardinality(section_nodes) |-> label[sorted_section_ids(rank)[k]]]

\* thread_steps: the nodes of a thread that are not Sections
thread_steps(path_info) ==
  LET NotSection(node_id) == node_id \notin section_nodes
  IN SelectSeq(path_info.path, NotSection)

\* section_threads_map[l] of parse_all_paths_dict: the final ids of the threads
\* with steps whose assigned Section carries the label l, in the order of complete_paths
section_threads_map(l, rank, label) ==
  LET Under(i) ==
        LET sid == assigned_section_id(complete_paths[i], rank)
        IN thread_steps(complete_paths[i]) # <<>> /\ sid # None /\ label[sid] = l
  IN SelectSeq([i \in DOMAIN complete_paths |-> i], Under)

\* standalone_threads_list of parse_all_paths_dict
standalone_threads_list(rank) ==
  LET Alone(i) ==
        /\ thread_steps(complete_paths[i]) # <<>>
        /\ assigned_section_id(complete_paths[i], rank) = None
  IN SelectSeq([i \in DOMAIN complete_paths |-> i], Alone)

\* output_sections: one entry per element of section_order whose list is not empty
output_sections(rank, label) ==
  LET entries == [k \in 1..Cardinality(section_nodes) |->
                    [label |-> section_order(rank, label)[k],
                     threads |-> section_threads_map(section_order(rank, label)[k],
                                                     rank, label)]]
      HasThreads(e) == e.threads # <<>>
  IN SelectSeq(entries, HasThreads)

\* summary.total_threads: the threads that are not a single Section
total_threads ==
  Len(complete_paths)
    - Cardinality({i \in DOMAIN complete_paths :
                     /\ Len(complete_paths[i].path) = 1
                     /\ complete_paths[i].path[1] \in section_nodes})

\* no structured output: the call has not returned one
NoDict == [sections |-> <<>>, standalone_threads |-> <<>>, total_threads |-> 0]

\* final_dict of parse_all_paths_dict
FinalDict(rank, label) ==
  [sections |-> output_sections(rank, label),
   standalone_threads |-> standalone_threads_list(rank),
   total_threads |-> total_threads]

\* the Section the text output lists a thread under: a thread of one Section is
\* skipped, a thread without x is standalone, the others take the same loop
text_assigned_section_id(path_info, rank) ==
  IF path_info.path[1] \in section_nodes /\ Len(path_info.path) = 1 THEN None
  ELSE assigned_section_id(path_info, rank)

\* what a caller can observe of a finished run
Output ==
  [threads |-> [i \in DOMAIN complete_paths |->
                  [id |-> complete_paths[i].id, path |-> complete_paths[i].path]],
   continues_in |-> path_connections,
   sections |-> section_of,
   result |-> result]

\* ------------------------------------------------------------------ actions
\* parse_single_path_from_lowest_x and generate_with_retry before they are called
NoSingle == [lowest_x_node_id |-> None, current_trace_back_id |-> None,
             root_node_id |-> None, visited_backward |-> {}, back_path |-> <<>>,
             current_node_id |-> None, path_nodes |-> <<>>, visited_forward |-> {},
             returned |-> "none"]
NoRetry == [pc |-> "idle", retries |-> 0, attempt |-> 0, calls |-> <<>>, sleeps |-> <<>>,
            returned |-> "none"]

\* the locals of a call before its first statement
FreshLocals ==
  /\ nodes_dict = {}
  /\ outgoing_connections = <<>>
  /\ incoming_connections = <<>>
  /\ processed_nodes = {}
  /\ path_counter = 1
  /\ initial_junction_paths = <<>>
  /\ linear_starts = {}
  /\ trace = NoTrace
  /\ finished_linear_paths = <<>>
  /\ complete_paths = <<>>
  /\ path_connections = <<>>
  /\ text_path_connections = <<>>
  /\ result = "none"
  /\ text_result = "none"
  /\ section_of = <<>>
  /\ text_section_of = <<>>
  /\ final_dict = NoDict
  /\ single = NoSingle
  /\ retry = NoRetry

Fresh == pc = "start" /\ FreshLocals

\* a direct call of the analysis: no JSON entry point is involved
NoJson == [kind |-> "none", envelope |-> FALSE]
DirectCall == wrapper = "none" /\ json_data = NoJson /\ returned = "none"

\* SecureSessionStore.__init__: both maps empty, _last_cleanup = time.time()
NewStore(t) == [sessions |-> <<>>, session_expiry |-> <<>>, last_cleanup |-> t]
NoCall == [op |-> "none", session_id |-> 0, at |-> 0, ok |-> FALSE, data |-> <<>>, removed |-> {}]
\* the browser sessions (script runs) served by the process
Browsers == {"b1", "b2"}
\* SecureAuthenticatedUser.__init__
NewUser == [cached_data |-> "none", cache_expiry |-> 0]
NoLogin == [caller |-> "none", own |-> "none", value |-> "none"]
\* the threads of the process
Threads == {"T1", "T2"}
\* a thread outside the store: no operation, no locals
IdleThread == [op |-> "idle", pc |-> "idle", session_id |-> 0, t0 |-> 0,
               iter_used |-> 0, iter_pos |-> 0, iter_count |-> 0, expired |-> {}]

\* a browser session without _oauth_state and _oauth_manager
\* st.session_state without _oauth_state and _oauth_manager (0: no state)
NoFlow == [state |-> 0, manager |-> FALSE]
NoCallback == [count |-> 0, caller |-> "none", state |-> 0, expected_state |-> 0,
               returned |-> FALSE, session_id |-> 0, flow_after |-> NoFlow]
\* no call of get_access_token so far (<<>> stands for None)
NoTokenCall == [pc |-> "idle", caller |-> "none", session_id |-> 0, started |-> 0,
                stored |-> <<>>, refresh |-> "none", fresh |-> <<>>, returned |-> <<>>,
                at |-> 0, left |-> <<>>]

StoreIdle ==
  /\ now = 0 /\ session_store = NewStore(0) /\ issued = 0 /\ last_call = NoCall
  /\ session_state = [b \in Browsers |-> 0]
  /\ secure_user = NewUser
  /\ login_result = NoLogin
  /\ data_result = NoLogin
  /\ threads = [t \in Threads |-> IdleThread]
  /\ failure = "none"
  /\ oauth = [b \in Browsers |-> NoFlow]
  /\ oauth_states = 0
  /\ callback = NoCallback
  /\ granted = <<>>
  /\ token_call = NoTokenCall

Init ==
  /\ IsTopoSchema(schema) \/ IsLayoutSchema(schema) \/ IsAnomSchema(schema) \/ IsHalfSchema(schema)
  /\ first_run = <<>>
  /\ Fresh
  /\ DirectCall
  /\ StoreIdle

\* an analysis that forgets the test of the empty node list
NoNodes_never == FALSE
\* `if not nodes`: the node list of the schema is empty
NoNodes == schema.nodes = {}

\* `if not nodes: return error`, then step 1: nodes_dict and the adjacency maps
Preprocess ==
  /\ pc = "start"
  /\ IF NoNodes
     THEN /\ result' = "error"
          /\ text_result' = "error"
          /\ pc' = "done"
          /\ UNCHANGED <<nodes_dict, outgoing_connections, incoming_connections>>
     ELSE /\ nodes_dict' = {n \in schema.nodes : Truthy(n)}
          /\ outgoing_connections' =
               [n \in {m \in schema.nodes : Truthy(m)} |-> OutgoingFrom(schema.connections, n)]
          /\ incoming_connections' =
               [n \in {m \in schema.nodes : Truthy(m)} |-> IncomingTo(schema.connections, n)]
          /\ pc' = "junctions"
          /\ UNCHANGED <<result, text_result>>
  /\ UNCHANGED <<schema, processed_nodes, path_counter, initial_junction_paths,
                 linear_starts, trace, finished_linear_paths, complete_paths,
                 path_connections, text_path_connections, first_run, section_of,
                 text_section_of, final_dict, json_vars, store_vars, tool_vars>>

\* step 4a: one iteration of `for j_id in junction_nodes`, in the set's order
JunctionPath ==
  /\ pc = "junctions"
  /\ \E j_id \in junction_nodes \ processed_nodes :
       /\ j_id \notin section_nodes
       /\ initial_junction_paths' =
            Append(initial_junction_paths,
                   PathInfo(<<j_id>>, JunctionType(j_id), path_counter, None, None))
       /\ processed_nodes' = processed_nodes \cup {j_id}
       /\ path_counter' = path_counter + 1
  /\ UNCHANGED <<schema, pc, nodes_dict, outgoing_connections, incoming_connections,
                 linear_starts, trace, finished_linear_paths, complete_paths,
                 path_connections, text_path_connections, result, text_result, first_run, section_of,
                 text_section_of, final_dict, json_vars, store_vars, tool_vars>>

\* step 4b: the set of linear starts, once the junction loop is over
LinearStarts ==
  /\ pc = "junctions"
  /\ junction_nodes \subseteq processed_nodes
  /\ linear_starts' = LinearStartSet
  /\ pc' = "starts"
  /\ UNCHANGED <<schema, nodes_dict, outgoing_connections, incoming_connections,
                 processed_nodes, path_counter, initial_junction_paths, trace,
                 finished_linear_paths, complete_paths, path_connections,
                 text_path_connections, result, text_result, first_run, section_of,
                 text_section_of, final_dict, json_vars, store_vars, tool_vars>>

\* step 4c: one iteration of `for start_node_id in ordered_linear_starts`; the
\* list is list(linear_starts) sorted by x, so starts of equal x come in the
\* set's order
StartTrace ==
  /\ pc = "starts"
  /\ \E start_node_id \in linear_starts :
       /\ \A other \in linear_starts : StartPosX(start_node_id) <= StartPosX(other)
       /\ linear_starts' = linear_starts \ {start_node_id}
       /\ IF start_node_id \in processed_nodes
          THEN UNCHANGED <<pc, trace>>
          ELSE /\ trace' = [current_node_id |-> start_node_id,
                            current_path_nodes |-> <<>>,
                            visited_in_this_trace |-> {}]
               /\ pc' = "trace"
  /\ UNCHANGED <<schema, nodes_dict, outgoing_connections, incoming_connections,
                 processed_nodes, path_counter, initial_junction_paths,
                 finished_linear_paths, complete_paths, path_connections,
                 text_path_connections, result, text_result, first_run, section_of,
                 text_section_of, final_dict, json_vars, store_vars, tool_vars>>

\* one iteration of `while not path_ended`
TraceStep ==
  /\ pc = "trace"
  /\ LET current_node_id == trace.current_node_id
     IN IF \/ current_node_id \in processed_nodes
           \/ current_node_id \in trace.visited_in_this_trace
        THEN /\ pc' = "starts"
             /\ trace' = NoTrace
             /\ UNCHANGED <<processed_nodes, path_counter, finished_linear_paths>>
        ELSE LET current_path_nodes == Append(trace.current_path_nodes, current_node_id)
                 processed == added(processed_nodes, current_node_id)
                 visited == trace.visited_in_this_trace \cup {current_node_id}
                 d == TraceDecision(current_node_id, visited, processed)
             IN /\ processed_nodes' = processed
                /\ IF d.should_end_here
                   THEN /\ finished_linear_paths' =
                             Append(finished_linear_paths,
                                    PathInfo(current_path_nodes, d.end_type, path_counter,
                                             d.ends_at_junction, d.via_interface))
                        /\ path_counter' = path_counter + 1
                        /\ trace' = NoTrace
                        /\ pc' = "starts"
                   ELSE /\ trace' = [current_node_id |-> d.next_node_id,
                                     current_path_nodes |-> current_path_nodes,
                                     visited_in_this_trace |-> visited]
                        /\ UNCHANGED <<pc, path_counter, finished_linear_paths>>
  /\ UNCHANGED <<schema, nodes_dict, outgoing_connections, incoming_connections,
                 initial_junction_paths, linear_starts, complete_paths,
                 path_connections, text_path_connections, result, text_result, first_run, section_of,
                 text_section_of, final_dict, json_vars, store_vars, tool_vars>>

\* step 5: sort the threads by the position of their first node and re-id them
SortPaths ==
  /\ pc = "starts"
  /\ linear_starts = {}
  /\ complete_paths' = ReId(SortedPaths(initial_junction_paths \o finished_linear_paths))
  /\ pc' = "link"
  /\ UNCHANGED <<schema, nodes_dict, outgoing_connections, incoming_connections,
                 processed_nodes, path_counter, initial_junction_paths, linear_starts,
                 trace, finished_linear_paths, path_connections, text_path_connections,
                 result, text_result, first_run, section_of,
                 text_section_of, final_dict, json_vars, store_vars, tool_vars>>

\* step 6: the links between threads, in both functions
BuildConnections ==
  /\ pc = "link"
  /\ path_connections' = DictConnections
  /\ text_path_connections' = TextConnections
  /\ pc' = "render"
  /\ UNCHANGED <<schema, nodes_dict, outgoing_connections, incoming_connections,
                 processed_nodes, path_counter, initial_junction_paths, linear_starts,
                 trace, finished_linear_paths, complete_paths, result, text_result,
                 first_run, section_of, text_section_of, final_dict, json_vars, store_vars, tool_vars>>

\* step 7: the rendering, which looks every node of every thread up in nodes_dict
Render ==
  /\ pc = "render"
  /\ result' = IF DictRaises THEN "raised" ELSE "ok"
  /\ text_result' = IF TextRaises THEN "raised" ELSE "ok"
  /\ \E rank \in SectionRanks : \E label \in [section_nodes -> SectionLabels] :
       /\ IF DictRaises
          THEN section_of' = <<>> /\ final_dict' = NoDict
          ELSE /\ section_of' = [i \in DOMAIN complete_paths |->
                                  assigned_section_id(complete_paths[i], rank)]
               /\ final_dict' = FinalDict(rank, label)
       /\ IF TextRaises
          THEN text_section_of' = <<>>
          ELSE text_section_of' = [i \in DOMAIN complete_paths |->
                                     text_assigned_section_id(complete_paths[i], rank)]
  /\ pc' = "done"
  /\ UNCHANGED <<schema, nodes_dict, outgoing_connections, incoming_connections,
                 processed_nodes, path_counter, initial_junction_paths, linear_starts,
                 trace, finished_linear_paths, complete_paths, path_connections,
                 text_path_connections, first_run, json_vars, store_vars, tool_vars>>

\* the analysis is called again on the unchanged schema (nothing survives a call)
Rerun ==
  /\ pc = "done"
  /\ wrapper = "none"
  /\ first_run = <<>>
  /\ first_run' = <<Output>>
  /\ pc' = "start"
  /\ nodes_dict' = {}
  /\ outgoing_connections' = <<>>
  /\ incoming_connections' = <<>>
  /\ processed_nodes' = {}
  /\ path_counter' = 1
  /\ initial_junction_paths' = <<>>
  /\ linear_starts' = {}
  /\ trace' = NoTrace
  /\ finished_linear_paths' = <<>>
  /\ complete_paths' = <<>>
  /\ path_connections' = <<>>
  /\ text_path_connections' = <<>>
  /\ result' = "none"
  /\ text_result' = "none"
  /\ section_of' = <<>>
  /\ text_section_of' = <<>>
  /\ final_dict' = NoDict
  /\ UNCHANGED <<schema, json_vars, store_vars, tool_vars>>

Next ==
  \/ Preprocess
  \/ JunctionPath
  \/ LinearStarts
  \/ StartTrace
  \/ TraceStep
  \/ SortPaths
  \/ BuildConnections
  \/ Render

Spec == Init /\ [][Next]_vars

\* the same analysis, called a second time on the unchanged schema
NextRerun ==
  \/ Preprocess
  \/ JunctionPath
  \/ LinearStarts
  \/ StartTrace
  \/ TraceStep
  \/ SortPaths
  \/ BuildConnections
  \/ Render
  \/ Rerun

SpecRerun == Init /\ [][NextRerun]_vars

\* ------------------------------------------------------------------ JSON entry points
\* parse_all_paths_dict_json and parse_all_paths_json: json.loads, the
\* conversion to a FlowSchema, the analysis, and the two except clauses.
Wrappers == {"parse_all_paths_dict_json", "parse_all_paths_json"}

\* the texts a caller can pass: not JSON; nested deeper than the interpreter's
\* recursion limit (json.loads raises RecursionError, which is no
\* JSONDecodeError); JSON that is no object; a schema object, bare or inside
\* an {"editor_schema": ...} envelope
JsonKinds == {"malformed", "too_deep", "not_object", "object"}

EmptySchema == MkSchema({}, <<>>, Spread, <<>>)

InitJson ==
  /\ wrapper \in Wrappers
  /\ json_data \in [kind : JsonKinds, envelope : BOOLEAN]
  /\ IF json_data.kind = "object"
     THEN IsAnomSchema(schema) \/ schema = EmptySchema
     ELSE schema = EmptySchema /\ json_data.envelope = FALSE
  /\ returned = "none"
  /\ pc = "json"
  /\ first_run = <<>>
  /\ FreshLocals
  /\ StoreIdle

\* data = json.loads(json_data), inside try / except json.JSONDecodeError
JsonLoads ==
  /\ pc = "json"
  /\ CASE json_data.kind = "malformed" -> returned' = "invalid_json" /\ pc' = "returned"
       [] json_data.kind = "too_deep" -> returned' = "RecursionError" /\ pc' = "returned"
       [] OTHER -> returned' = returned /\ pc' = "convert"
  /\ UNCHANGED <<schema, nodes_dict, outgoing_connections, incoming_connections,
                 processed_nodes, path_counter, initial_junction_paths, linear_starts,
                 trace, finished_linear_paths, complete_paths, path_connections,
                 text_path_connections, result, text_result, first_run, section_of, text_section_of, final_dict,
                 wrapper, json_data, store_vars, tool_vars>>

\* the envelope test and build_flow_schema_from_dict, inside try / except Exception:
\* `"editor_schema" in data` raises TypeError for data that is no container
JsonConvert ==
  /\ pc = "convert"
  /\ IF json_data.kind = "not_object"
     THEN returned' = "failed" /\ pc' = "returned"
     ELSE returned' = returned /\ pc' = "start"
  /\ UNCHANGED <<schema, nodes_dict, outgoing_connections, incoming_connections,
                 processed_nodes, path_counter, initial_junction_paths, linear_starts,
                 trace, finished_linear_paths, complete_paths, path_connections,
                 text_path_connections, result, text_result, first_run, section_of, text_section_of, final_dict,
                 wrapper, json_data, store_vars, tool_vars>>

\* how the analysis called by the entry point ended
Analysis == IF wrapper = "parse_all_paths_dict_json" THEN result ELSE text_result

\* the analysis is over: its value is returned, an exception it raised is
\* caught by `except Exception` and turned into the error value
JsonReturn ==
  /\ pc = "done"
  /\ wrapper \in Wrappers
  /\ returned' = CASE Analysis = "raised" -> "failed"
                   [] Analysis = "error" -> "no_nodes"
                   [] OTHER -> "threads"
  /\ pc' = "returned"
  /\ UNCHANGED <<schema, nodes_dict, outgoing_connections, incoming_connections,
                 processed_nodes, path_counter, initial_junction_paths, linear_starts,
                 trace, finished_linear_paths, complete_paths, path_connections,
                 text_path_connections, result, text_result, first_run, section_of, text_section_of, final_dict,
                 wrapper, json_data, store_vars, tool_vars>>

NextJson ==
  \/ JsonLoads
  \/ JsonConvert
  \/ Preprocess
  \/ JunctionPath
  \/ LinearStarts
  \/ StartTrace
  \/ TraceStep
  \/ SortPaths
  \/ BuildConnections
  \/ Render
  \/ JsonReturn

SpecJson == InitJson /\ [][NextJson]_vars

\* the analysis variables while the session store is exercised
AnalysisIdle ==
  /\ schema = EmptySchema
  /\ pc = "idle"
  /\ first_run = <<>>
  /\ FreshLocals
  /\ DirectCall

parser_vars ==
  <<schema, pc, nodes_dict, outgoing_connections, incoming_connections,
    processed_nodes, path_counter, initial_junction_paths, linear_starts,
    trace, finished_linear_paths, complete_paths, path_connections,
    text_path_connections, result, text_result, first_run, section_of, text_section_of, final_dict>>

\* ------------------------------------------------------------------ single-path tracer
\* parse_single_path_from_lowest_x(flow_schema).  The schema keeps no order of
\* its nodes, so among the nodes of minimum x any one can be the first of the
\* node list, which is the one the strict comparison keeps.
InitSingle ==
  /\ IsTopoSchema(schema) \/ IsLayoutSchema(schema) \/ IsAnomSchema(schema) \/ IsHalfSchema(schema)
  /\ first_run = <<>>
  /\ pc = "single"
  /\ FreshLocals
  /\ DirectCall
  /\ StoreIdle

\* the nodes whose float(node.position.x) is the minimum
lowest_x_nodes(nodes) ==
  {n \in nodes : ParsesX(n) /\ \A m \in nodes : ParsesX(m) => schema.x[n] <= schema.x[m]}

single_vars_rest ==
  <<schema, processed_nodes, path_counter, initial_junction_paths, linear_starts, trace,
    finished_linear_paths, complete_paths, path_connections, text_path_connections,
    result, text_result, first_run, section_of,
    text_section_of, final_dict, retry, json_vars, store_vars>>

\* `if not nodes`, step 1 (nodes_dict, the lowest x, the adjacency maps) and
\* the start of the backward trace
SinglePreprocess ==
  /\ pc = "single"
  /\ IF NoNodes
     THEN /\ single' = [single EXCEPT !.returned = "error_no_nodes"]
          /\ pc' = "single_done"
          /\ UNCHANGED <<nodes_dict, outgoing_connections, incoming_connections>>
     ELSE LET nodes == {n \in schema.nodes : Truthy(n)}
          IN IF lowest_x_nodes(nodes) = {}
             THEN /\ single' = [single EXCEPT !.returned = "error_no_lowest_x"]
                  /\ pc' = "single_done"
                  /\ nodes_dict' = nodes
                  /\ UNCHANGED <<outgoing_connections, incoming_connections>>
             ELSE /\ nodes_dict' = nodes
                  /\ outgoing_connections' = [n \in nodes |-> OutgoingFrom(schema.connections, n)]
                  /\ incoming_connections' = [n \in nodes |-> IncomingTo(schema.connections, n)]
                  /\ \E lowest_x_node_id \in lowest_x_nodes(nodes) :
                       single' = [single EXCEPT !.lowest_x_node_id = lowest_x_node_id,
                                                !.current_trace_back_id = lowest_x_node_id,
                                                !.root_node_id = lowest_x_node_id,
                                                !.visited_backward = {lowest_x_node_id},
                                                !.back_path = <<lowest_x_node_id>>]
                  /\ pc' = "back"
  /\ UNCHANGED single_vars_rest

\* the backward trace stops at root_node_id and the forward trace starts there
StartForward(root_node_id) ==
  /\ single' = [single EXCEPT !.root_node_id = root_node_id,
                              !.current_node_id = root_node_id]
  /\ pc' = "forward"

\* one iteration of the `while True` of step 2: the predecessor the trace
\* moves to, None when it stops at the current node
BackDecision(current_trace_back_id, visited_backward) ==
  LET incoming == Get(incoming_connections, current_trace_back_id)
      num_incoming == Len(incoming)
  IN IF num_incoming = 0 THEN None
     ELSE IF num_incoming = 1
     THEN IF incoming[1].from_node \in visited_backward THEN None
          ELSE IF incoming[1].from_node \notin nodes_dict THEN None
          ELSE incoming[1].from_node
     ELSE None

BackStep ==
  /\ pc = "back"
  /\ LET from_node == BackDecision(single.current_trace_back_id, single.visited_backward)
     IN IF from_node = None
        THEN StartForward(single.current_trace_back_id)
        ELSE /\ single' = [single EXCEPT !.current_trace_back_id = from_node,
                                         !.root_node_id = from_node,
                                         !.visited_backward = @ \cup {from_node},
                                         !.back_path = Append(@, from_node)]
             /\ pc' = pc
  /\ UNCHANGED <<nodes_dict, outgoing_connections, incoming_connections, single_vars_rest>>

\* one iteration of the `while current_node_id is not None` of step 3
ForwardStep ==
  /\ pc = "forward"
  /\ LET current_node_id == single.current_node_id
         num_incoming == Len(Get(incoming_connections, current_node_id))
         outgoing == Get(outgoing_connections, current_node_id)
         is_root_node == current_node_id = single.root_node_id
     IN IF current_node_id \notin nodes_dict
        THEN /\ single' = [single EXCEPT !.returned = "path"]
             /\ pc' = "single_done"
        ELSE IF current_node_id \in single.visited_forward
        THEN /\ single' = [single EXCEPT !.path_nodes = Append(@, current_node_id),
                                         !.returned = "path"]
             /\ pc' = "single_done"
        ELSE IF (~is_root_node /\ num_incoming > 1) \/ Len(outgoing) # 1
        THEN /\ single' = [single EXCEPT !.path_nodes = Append(@, current_node_id),
                                         !.visited_forward = @ \cup {current_node_id},
                                         !.returned = "path"]
             /\ pc' = "single_done"
        ELSE /\ single' = [single EXCEPT !.path_nodes = Append(@, current_node_id),
                                         !.visited_forward = @ \cup {current_node_id},
                                         !.current_node_id = outgoing[1].to_node]
             /\ pc' = pc
  /\ UNCHANGED <<nodes_dict, outgoing_connections, incoming_connections, single_vars_rest>>

NextSingle ==
  \/ SinglePreprocess
  \/ BackStep
  \/ ForwardStep

SpecSingle == InitSingle /\ [][NextSingle]_vars

\* ------------------------------------------------------------------ generate_with_retry
\* generate_with_retry(ai_model, prompts, retries, base_wait).  The model's
\* answers and the exceptions it raises are drawn from two small sets.
MaxRetries == 4
base_wait == 1
Generations == {"g1", "g2"}
Exceptions == {"RateLimit", "Timeout"}

\* a handler that waits after every failure
sleeps_before_retry_always(attempt, retries) == TRUE
\* `if attempt < retries - 1`
sleeps_before_retry(attempt, retries) == attempt < retries - 1

retry_rest == <<parser_vars, single, json_vars, store_vars>>

\* the call itself: the arguments are bound, the loop is about to start
RetryCall ==
  /\ retry.pc = "idle"
  /\ \E retries \in (-1)..MaxRetries :
       retry' = [retry EXCEPT !.pc = "loop", !.retries = retries]
  /\ UNCHANGED retry_rest

\* `for attempt in range(retries)` and the try block: one call of
\* ai_model.generate, whose result is returned at once; an exhausted range
\* falls off the end of the function, which returns None
RetryGenerate ==
  /\ retry.pc = "loop"
  /\ IF retry.attempt < retry.retries
     THEN \/ \E g \in Generations :
               retry' = [retry EXCEPT !.calls = Append(@, [ok |-> TRUE, value |-> g]),
                                      !.returned = [kind |-> "return", value |-> g],
                                      !.pc = "done"]
          \/ \E e \in Exceptions :
               retry' = [retry EXCEPT !.calls = Append(@, [ok |-> FALSE, value |-> e]),
                                      !.pc = "except"]
     ELSE retry' = [retry EXCEPT !.returned = [kind |-> "return", value |-> None],
                                 !.pc = "done"]
  /\ UNCHANGED retry_rest

\* the except block: sleep and continue, or re-raise the exception in flight
RetryExcept ==
  /\ retry.pc = "except"
  /\ IF sleeps_before_retry(retry.attempt, retry.retries)
     THEN retry' = [retry EXCEPT !.sleeps = Append(@, [after |-> Len(retry.calls),
                                                       wait_time |-> base_wait * (2 ^ retry.attempt)]),
                                 !.attempt = @ + 1,
                                 !.pc = "loop"]
     ELSE retry' = [retry EXCEPT !.returned = [kind |-> "raise",
                                               value |-> retry.calls[Len(retry.calls)].value],
                                 !.pc = "done"]
  /\ UNCHANGED retry_rest

NextRetry ==
  \/ RetryCall
  \/ RetryGenerate
  \/ RetryExcept

\* no call is in progress
InitRetry == AnalysisIdle /\ StoreIdle

SpecRetry == InitRetry /\ [][NextRetry]_vars

\* ------------------------------------------------------------------ session store
\* SecureSessionStore (src/secure_auth_app.py).  Time is time.time() in seconds
\* and advances in steps of a third of a cleanup interval.
cleanup_interval == 300
TimeStep == cleanup_interval \div 3
\* the clock stops after this many steps
MaxTicks == 4
\* at most this many sessions are ever created
MaxSessions == 1

Users == {"u1", "u2"}
Tokens == {"t1", "t2"}
TTLs == {TimeStep, 4 * TimeStep}
SessionIds == 1..MaxSessions

\* dict.pop(k, None) for every k of ks
PopAll(d, ks) == [k \in (DOMAIN d) \ ks |-> d[k]]
\* d[k] = v
Put(d, k, v) == [j \in (DOMAIN d) \cup {k} |-> IF j = k THEN v ELSE d[j]]

\* the list expired_sessions of _cleanup_expired_sessions
expired_sessions(S, t) == {sid \in DOMAIN S.session_expiry : t > S.session_expiry[sid]}

\* a cleanup that waits for more than the interval
cleanup_due_late(S, t) == t - S.last_cleanup > cleanup_interval
\* the early return of _cleanup_expired_sessions is not taken
cleanup_due(S, t) == ~(t - S.last_cleanup < cleanup_interval)

\* _cleanup_expired_sessions at time t
cleanup_expired_sessions(S, t) ==
  IF ~cleanup_due(S, t) THEN S
  ELSE [sessions |-> PopAll(S.sessions, expired_sessions(S, t)),
        session_expiry |-> PopAll(S.session_expiry, expired_sessions(S, t)),
        last_cleanup |-> t]

\* create_session: the store after the call
create_session(S, t, session_id, user_id, tokens, ttl_seconds) ==
  LET C == cleanup_expired_sessions(S, t)
  IN [sessions |-> Put(C.sessions, session_id,
                       [user_id |-> user_id, created_at |-> t, last_accessed |-> t,
                        tokens |-> tokens]),
      session_expiry |-> Put(C.session_expiry, session_id, t + ttl_seconds),
      last_cleanup |-> C.last_cleanup]

\* get_session: the store after the call and the value returned (<<>> is None)
get_session(S, t, session_id) ==
  LET C == cleanup_expired_sessions(S, t)
  IN IF /\ session_id \in DOMAIN C.sessions
        /\ session_id \in DOMAIN C.session_expiry
        /\ t < C.session_expiry[session_id]
     THEN LET touched == [C.sessions[session_id] EXCEPT !.last_accessed = t]
          IN [store |-> [C EXCEPT !.sessions = Put(C.sessions, session_id, touched)],
              value |-> <<touched>>]
     ELSE [store |-> C, value |-> <<>>]

\* update_session with data = {'tokens': tokens}
update_session(S, t, session_id, tokens) ==
  LET C == cleanup_expired_sessions(S, t)
  IN IF session_id \in DOMAIN C.sessions
     THEN [store |-> [C EXCEPT !.sessions =
                        Put(C.sessions, session_id,
                            [C.sessions[session_id] EXCEPT !.tokens = tokens,
                                                            !.last_accessed = t])],
           value |-> TRUE]
     ELSE [store |-> C, value |-> FALSE]

\* the ids a call at time t removes by its cleanup
Removed(S, t) == (DOMAIN S.session_expiry) \ (DOMAIN cleanup_expired_sessions(S, t).session_expiry)

\* delete_session
delete_session(S, session_id) ==
  [store |-> [S EXCEPT !.sessions = PopAll(S.sessions, {session_id}),
                       !.session_expiry = PopAll(S.session_expiry, {session_id})],
   value |-> session_id \in DOMAIN S.sessions]

InitStore == AnalysisIdle /\ StoreIdle

analysis_vars == <<parser_vars, tool_vars>>

\* time passes
Tick ==
  /\ now < MaxTicks * TimeStep
  /\ now' = now + TimeStep
  /\ UNCHANGED <<analysis_vars, json_vars, session_store, issued, last_call, login_vars, thread_vars>>

\* a call of create_session; secrets.token_urlsafe gives an id never seen before
CreateSession ==
  /\ issued < MaxSessions
  /\ \E user_id \in Users : \E ttl_seconds \in TTLs :
       session_store' = create_session(session_store, now, issued + 1, user_id, "t1", ttl_seconds)
  /\ issued' = issued + 1
  /\ last_call' = [op |-> "create_session", session_id |-> issued + 1, at |-> now,
                   ok |-> TRUE, data |-> <<>>, removed |-> Removed(session_store, now)]
  /\ UNCHANGED <<analysis_vars, json_vars, now, login_vars, thread_vars>>

GetSession ==
  /\ \E session_id \in SessionIds :
       LET r == get_session(session_store, now, session_id)
       IN /\ session_store' = r.store
          /\ last_call' = [op |-> "get_session", session_id |-> session_id, at |-> now,
                           ok |-> r.value # <<>>, data |-> r.value,
                           removed |-> Removed(session_store, now)]
  /\ UNCHANGED <<analysis_vars, json_vars, now, issued, login_vars, thread_vars>>

UpdateSession ==
  /\ \E session_id \in SessionIds : \E tokens \in Tokens :
       LET r == update_session(session_store, now, session_id, tokens)
       IN /\ session_store' = r.store
          /\ last_call' = [op |-> "update_session", session_id |-> session_id, at |-> now,
                           ok |-> r.value, data |-> <<>>,
                           removed |-> Removed(session_store, now)]
  /\ UNCHANGED <<analysis_vars, json_vars, now, issued, login_vars, thread_vars>>

DeleteSession ==
  /\ \E session_id \in SessionIds :
       LET r == delete_session(session_store, session_id)
       IN /\ session_store' = r.store
          /\ last_call' = [op |-> "delete_session", session_id |-> session_id, at |-> now,
                           ok |-> r.value, data |-> <<>>, removed |-> {}]
  /\ UNCHANGED <<analysis_vars, json_vars, now, issued, login_vars, thread_vars>>

NextStore ==
  \/ Tick
  \/ CreateSession
  \/ GetSession
  \/ UpdateSession
  \/ DeleteSession

SpecStore == InitStore /\ [][NextStore]_vars

\* ------------------------------------------------------------------ silent login
\* secure_silent_login_and_get_user_info (src/new_silent_login.py) over the
\* global session_store and the global secure_user (src/secure_auth_app.py).
\* A user's e-mail address stands for the userinfo the provider returns for the
\* user's access token and for the user's database record; access tokens
\* outlive the modelled time.
cache_duration == 300
login_ttl == 86400

\* the user whose valid session the browser session b holds, "none" without one
Own(b) ==
  LET sid == session_state[b]
  IN IF /\ sid \in DOMAIN session_store.sessions
        /\ sid \in DOMAIN session_store.session_expiry
        /\ now < session_store.session_expiry[sid]
     THEN session_store.sessions[sid].user_id
     ELSE "none"

\* _refresh_cache for session id sid (0: none); provider_ok says whether
\* oauth_manager.get_userinfo succeeds
refresh_cache(U, S, t, sid, provider_ok) ==
  LET r == IF sid = 0 THEN [store |-> S, value |-> <<>>] ELSE get_session(S, t, sid)
  IN IF r.value = <<>> \/ ~provider_ok
     THEN [user |-> U, store |-> r.store, value |-> "none"]
     ELSE [user |-> [cached_data |-> r.value[1].user_id, cache_expiry |-> t + cache_duration],
           store |-> r.store, value |-> r.value[1].user_id]

\* get_data: the logged-in user of the data returned, "none" for is_logged_in False
get_data(U, S, t, sid, provider_ok) ==
  IF t > U.cache_expiry \/ U.cached_data = "none"
  THEN refresh_cache(U, S, t, sid, provider_ok)
  ELSE [user |-> U, store |-> S, value |-> U.cached_data]

\* Step 2: the sessions of the store that are still valid at time t
valid_sessions(S, t) ==
  {sid \in DOMAIN S.sessions :
     t < (IF sid \in DOMAIN S.session_expiry THEN S.session_expiry[sid] ELSE 0)}

\* Step 2: the user of the first valid session, in insertion order, whose
\* userinfo the provider returns (answered: the ids it answers for)
first_session_user(S, t, answered) ==
  LET found == valid_sessions(S, t) \cap answered
  IN IF found = {} THEN "none"
     ELSE S.sessions[CHOOSE sid \in found : \A other \in found : sid <= other].user_id

\* secure_silent_login_and_get_user_info called from browser session b outside
\* an OAuth callback: the record returned ("empty" is {})
secure_silent_login_and_get_user_info(U, S, t, sid, provider_ok, answered) ==
  LET d == get_data(U, S, t, sid, provider_ok)
      other == first_session_user(d.store, t, answered)
  IN [user |-> d.user, store |-> d.store,
      value |-> IF d.value # "none" THEN d.value
                ELSE IF other # "none" THEN other
                ELSE "empty"]

\* handle_oauth_callback succeeds in browser session b for user u
Login ==
  /\ issued < MaxSessions
  /\ \E b \in Browsers : \E u \in Users :
       /\ session_state[b] = 0
       /\ session_store' = create_session(session_store, now, issued + 1, u, "t1", login_ttl)
       /\ session_state' = [session_state EXCEPT ![b] = issued + 1]
  /\ issued' = issued + 1
  /\ UNCHANGED <<analysis_vars, json_vars, now, last_call, secure_user, login_result, data_result, thread_vars, oauth_vars>>

\* secure_user.logout() in browser session b
Logout ==
  /\ \E b \in Browsers :
       /\ session_store' = IF session_state[b] # 0
                            THEN delete_session(session_store, session_state[b]).store
                            ELSE session_store
       /\ session_state' = [session_state EXCEPT ![b] = 0]
  /\ secure_user' = NewUser
  /\ UNCHANGED <<analysis_vars, json_vars, now, issued, last_call, login_result, data_result, thread_vars, oauth_vars>>

\* secure_user.get_data() in browser session b (a page that shows the user)
GetData ==
  /\ \E b \in Browsers : \E provider_ok \in BOOLEAN :
       LET d == get_data(secure_user, session_store, now, session_state[b], provider_ok)
       IN /\ secure_user' = d.user
          /\ session_store' = d.store
          /\ data_result' = [caller |-> b, own |-> Own(b), value |-> d.value]
  /\ UNCHANGED <<analysis_vars, json_vars, now, issued, last_call, session_state, login_result, thread_vars, oauth_vars>>

\* secure_silent_login_and_get_user_info() in browser session b
SilentLogin ==
  /\ \E b \in Browsers : \E provider_ok \in BOOLEAN : \E answered \in SUBSET SessionIds :
       LET r == secure_silent_login_and_get_user_info(secure_user, session_store, now,
                                                      session_state[b], provider_ok, answered)
       IN /\ secure_user' = r.user
          /\ session_store' = r.store
          /\ login_result' = [caller |-> b, own |-> Own(b), value |-> r.value]
  /\ UNCHANGED <<analysis_vars, json_vars, now, issued, last_call, session_state, data_result, thread_vars, oauth_vars>>

NextLogin ==
  \/ Tick
  \/ Login
  \/ Logout
  \/ GetData
  \/ SilentLogin

SpecLogin == InitStore /\ [][NextLogin]_vars

\* ------------------------------------------------------------------ OAuth flow
\* init_oauth_flow and handle_oauth_callback.  st.session_state belongs to one
\* browser session; a state value is a fresh random string, modelled by its
\* serial number (0 stands for a missing or empty state).
MaxFlows == 2
MaxCallbacks == 3

\* what the provider's token and userinfo endpoints do with the code: they
\* identify a user, identify nobody, or fail
Exchanges == Users \cup {"no_user_id", "exception"}

\* a callback that leaves the temporary OAuth data in place
cleaned_up_kept(flow) == flow
\* the delattr loop over _oauth_manager, _oauth_state and _oauth_nonce
cleaned_up(flow) == NoFlow

oauth_rest ==
  <<analysis_vars, json_vars, now, last_call, secure_user, login_result, data_result, thread_vars,
    token_call>>

\* init_oauth_flow in browser session b
InitOAuthFlow ==
  /\ oauth_states < MaxFlows
  /\ \E b \in Browsers :
       oauth' = [oauth EXCEPT ![b] = [state |-> oauth_states + 1, manager |-> TRUE]]
  /\ oauth_states' = oauth_states + 1
  /\ UNCHANGED <<session_store, issued, session_state, callback, granted, oauth_rest>>

\* handle_oauth_callback(code, state) in browser session b
HandleOAuthCallback ==
  /\ callback.count < MaxCallbacks
  /\ \E b \in Browsers : \E state \in 0..(oauth_states + 1) : \E exchange \in Exchanges :
       LET expected_state == oauth[b].state
           call == [count |-> callback.count + 1, caller |-> b, state |-> state,
                    expected_state |-> expected_state, returned |-> FALSE,
                    session_id |-> 0, flow_after |-> oauth[b]]
       IN IF expected_state = 0 \/ state # expected_state
          THEN /\ callback' = call
               /\ UNCHANGED <<session_store, issued, session_state, oauth, granted>>
          ELSE IF ~oauth[b].manager
          THEN /\ callback' = call
               /\ UNCHANGED <<session_store, issued, session_state, oauth, granted>>
          ELSE IF exchange \notin Users
          THEN /\ callback' = call
               /\ UNCHANGED <<session_store, issued, session_state, oauth, granted>>
          ELSE /\ session_store' = create_session(session_store, now, issued + 1, exchange,
                                                  "t1", login_ttl)
               /\ issued' = issued + 1
               /\ session_state' = [session_state EXCEPT ![b] = issued + 1]
               /\ oauth' = [oauth EXCEPT ![b] = cleaned_up(@)]
               /\ granted' = Append(granted, [state |-> state, caller |-> b,
                                              session_id |-> issued + 1])
               /\ callback' = [call EXCEPT !.returned = TRUE, !.session_id = issued + 1,
                                           !.flow_after = cleaned_up(oauth[b])]
  /\ UNCHANGED <<oauth_states, oauth_rest>>

NextOAuth ==
  \/ InitOAuthFlow
  \/ HandleOAuthCallback

SpecOAuth == InitStore /\ [][NextOAuth]_vars

\* ------------------------------------------------------------------ access tokens
\* SecureAuthenticatedUser.get_access_token.  The session's tokens are the
\* fields of a TokenInfo that matter here; access tokens are numbered in the
\* order the provider issues them.  The request to the provider's token
\* endpoint takes time, every other statement of the call takes none.
NoExpiry == -1
ExpiresIn == {NoExpiry, TimeStep, 2 * TimeStep}

\* time passes in steps; the long step, which no request to the provider
\* lasts, leads to the last minutes of a session created by
\* handle_oauth_callback
LongStep == login_ttl - 3 * TimeStep

\* TokenInfo(...), whose __post_init__ sets issued_at to time.time()
TokenInfo(access_token, expires_in, refresh_token, t) ==
  [access_token |-> access_token, expires_in |-> expires_in,
   refresh_token |-> refresh_token, issued_at |-> t]

\* TokenInfo.is_expired, read at time t
is_expired(token_info, t) ==
  IF token_info.expires_in = NoExpiry THEN FALSE
  ELSE (t - token_info.issued_at) >= token_info.expires_in

\* the tokens of a session, <<>> when the store has no such session
TokensOf(S, session_id) ==
  IF session_id \in DOMAIN S.sessions THEN <<S.sessions[session_id].tokens>> ELSE <<>>

token_rest ==
  <<analysis_vars, json_vars, last_call, secure_user, login_result, data_result, thread_vars,
    oauth, oauth_states, callback, granted>>

TokenTick ==
  /\ \/ (now % LongStep) < MaxTicks * TimeStep /\ now' = now + TimeStep
     \/ now < LongStep /\ token_call.pc = "idle" /\ now' = now + LongStep
  /\ UNCHANGED <<session_store, issued, session_state, token_call, token_rest>>

\* handle_oauth_callback succeeds in browser session b: the session holds
\* asdict(token_info) of the tokens the provider issued
TokenLogin ==
  /\ issued < MaxSessions
  /\ token_call.pc = "idle"
  /\ \E b \in Browsers : \E u \in Users : \E expires_in \in ExpiresIn :
     \E refresh_token \in {None, "r1"} :
       /\ session_state[b] = 0
       /\ session_store' = create_session(session_store, now, issued + 1, u,
                                          TokenInfo(1, expires_in, refresh_token, now), login_ttl)
       /\ session_state' = [session_state EXCEPT ![b] = issued + 1]
  /\ issued' = issued + 1
  /\ UNCHANGED <<now, token_call, token_rest>>

\* get_access_token in browser session b, up to its return or up to the
\* request that refreshes the token
GetAccessToken ==
  /\ token_call.pc = "idle"
  /\ \E b \in Browsers :
       LET session_id == session_state[b]
           r == get_session(session_store, now, session_id)
           call == [NoTokenCall EXCEPT !.caller = b, !.session_id = session_id,
                                       !.started = now, !.at = now]
       IN IF session_id = 0
          THEN /\ token_call' = call
               /\ UNCHANGED session_store
          ELSE /\ session_store' = r.store
               /\ IF r.value = <<>>
                  THEN token_call' = [call EXCEPT !.left = TokensOf(r.store, session_id)]
                  ELSE LET token_info == r.value[1].tokens
                       IN IF is_expired(token_info, now) /\ token_info.refresh_token # None
                          THEN token_call' = [call EXCEPT !.pc = "refreshing",
                                                          !.stored = <<token_info>>]
                          ELSE token_call' =
                                 [call EXCEPT !.stored = <<token_info>>,
                                              !.returned = IF ~is_expired(token_info, now)
                                                           THEN <<token_info.access_token>>
                                                           ELSE <<>>,
                                              !.left = TokensOf(r.store, session_id)]
  /\ UNCHANGED <<now, issued, session_state, token_rest>>

\* the rest of the call: refresh_access_token returns or raises, the new
\* tokens go to update_session, whose result is not looked at
RefreshReturns ==
  /\ token_call.pc = "refreshing"
  /\ LET token_info == token_call.stored[1]
         session_id == session_state[token_call.caller]
     IN \/ /\ token_call' = [token_call EXCEPT !.pc = "idle", !.refresh = "failed",
                                                !.at = now,
                                                !.left = TokensOf(session_store, session_id)]
           /\ UNCHANGED session_store
        \/ \E expires_in \in ExpiresIn : \E refresh_token \in {token_info.refresh_token, "r2"} :
             LET new_token_info == TokenInfo(token_info.access_token + 1, expires_in,
                                             refresh_token, now)
                 u == update_session(session_store, now, session_id, new_token_info)
             IN /\ session_store' = u.store
                /\ token_call' = [token_call EXCEPT !.pc = "idle", !.refresh = "ok",
                                                    !.fresh = <<new_token_info>>,
                                                    !.returned = <<new_token_info.access_token>>,
                                                    !.at = now,
                                                    !.left = TokensOf(u.store, session_id)]
  /\ UNCHANGED <<now, issued, session_state, token_rest>>

NextToken ==
  \/ TokenTick
  \/ TokenLogin
  \/ GetAccessToken
  \/ RefreshReturns

SpecToken == InitStore /\ [][NextToken]_vars

\* ------------------------------------------------------------------ threads on the store
\* The operations of SecureSessionStore run by the threads of the process on
\* the one global store.  The class takes no lock, so a thread may be suspended
\* between any two accesses of the maps; one action is one such access.  Ids
\* are issued in increasing order, so the insertion order of a map is the
\* order of its ids.
Ops == {"create_session", "get_session", "update_session", "delete_session"}

\* where an operation goes on after _cleanup_expired_sessions has returned
AfterCleanup(op) ==
  CASE op = "create_session" -> "create_sessions"
    [] op = "get_session" -> "get_check"
    [] op = "update_session" -> "update_check"

\* the operation of thread t returns
Return(t) == threads' = [threads EXCEPT ![t] = IdleThread]

\* the operation of thread t raises exc
Raise(t, exc) ==
  /\ threads' = [threads EXCEPT ![t] = IdleThread]
  /\ failure' = exc

\* thread t moves to pc
Goto(t, pc_next) == threads' = [threads EXCEPT ![t].pc = pc_next]

\* a thread calls an operation of the store
Call ==
  /\ \E t \in Threads : \E op \in Ops :
       /\ threads[t].pc = "idle"
       /\ IF op = "create_session"
          THEN /\ issued < MaxSessions
               /\ issued' = issued + 1
               /\ threads' = [threads EXCEPT ![t] =
                                [IdleThread EXCEPT !.op = op, !.pc = "cleanup",
                                                   !.session_id = issued + 1]]
          ELSE /\ UNCHANGED issued
               /\ \E session_id \in SessionIds :
                    threads' = [threads EXCEPT ![t] =
                                 [IdleThread EXCEPT !.op = op,
                                    !.pc = IF op = "delete_session" THEN "delete_check" ELSE "cleanup",
                                    !.session_id = session_id]]
  /\ UNCHANGED <<analysis_vars, json_vars, login_vars, now, session_store, last_call, failure>>

\* _cleanup_expired_sessions: now = time.time(), the early return, and the
\* items() iterator of the list comprehension (it records the size of the map)
CleanupEnter ==
  /\ \E t \in Threads :
       /\ threads[t].pc = "cleanup"
       /\ IF ~cleanup_due(session_store, now)
          THEN Goto(t, AfterCleanup(threads[t].op))
          ELSE threads' = [threads EXCEPT ![t].pc = "iterate", ![t].t0 = now,
                             ![t].iter_used = Cardinality(DOMAIN session_store.session_expiry),
                             ![t].iter_pos = 0, ![t].iter_count = 0, ![t].expired = {}]
  /\ UNCHANGED <<analysis_vars, json_vars, login_vars, now, session_store, issued, last_call, failure>>

\* one step of the iterator over _session_expiry.items(): RuntimeError when
\* the map has changed size, or when it holds an entry more than it had;
\* otherwise the next entry, kept in expired_sessions if now > expiry_time
CleanupIterate ==
  /\ \E t \in Threads :
       LET T == threads[t]
           rest == {k \in DOMAIN session_store.session_expiry : k > T.iter_pos}
       IN /\ T.pc = "iterate"
          /\ IF Cardinality(DOMAIN session_store.session_expiry) # T.iter_used
             THEN Raise(t, "RuntimeError")
             ELSE IF rest = {}
             THEN Goto(t, "pop") /\ UNCHANGED failure
             ELSE IF T.iter_count = T.iter_used
             THEN Raise(t, "RuntimeError")
             ELSE LET k == CHOOSE k \in rest : \A other \in rest : k <= other
                  IN /\ threads' = [threads EXCEPT ![t].iter_pos = k,
                                       ![t].iter_count = T.iter_count + 1,
                                       ![t].expired = IF T.t0 > session_store.session_expiry[k]
                                                      THEN T.expired \cup {k} ELSE T.expired]
                     /\ UNCHANGED failure
  /\ UNCHANGED <<analysis_vars, json_vars, login_vars, now, session_store, issued, last_call>>

\* the pops of the expired sessions and self._last_cleanup = now
CleanupPop ==
  /\ \E t \in Threads :
       /\ threads[t].pc = "pop"
       /\ session_store' = [sessions |-> PopAll(session_store.sessions, threads[t].expired),
                            session_expiry |-> PopAll(session_store.session_expiry, threads[t].expired),
                            last_cleanup |-> threads[t].t0]
       /\ Goto(t, AfterCleanup(threads[t].op))
  /\ UNCHANGED <<analysis_vars, json_vars, login_vars, now, issued, last_call, failure>>

\* create_session after the cleanup: the two stores into the maps
CreateStep ==
  /\ \E t \in Threads :
       LET T == threads[t]
       IN \/ /\ T.pc = "create_sessions"
             /\ \E user_id \in Users :
                  session_store' = [session_store EXCEPT !.sessions =
                    Put(session_store.sessions, T.session_id,
                        [user_id |-> user_id, created_at |-> now, last_accessed |-> now,
                         tokens |-> "t1"])]
             /\ Goto(t, "create_expiry")
          \/ /\ T.pc = "create_expiry"
             /\ \E ttl_seconds \in TTLs :
                  session_store' = [session_store EXCEPT !.session_expiry =
                    Put(session_store.session_expiry, T.session_id, now + ttl_seconds)]
             /\ Return(t)
  /\ UNCHANGED <<analysis_vars, json_vars, login_vars, now, issued, last_call, failure>>

\* get_session after the cleanup: the membership tests, the read of the
\* expiry, the store of last_accessed, the copy
GetStep ==
  /\ \E t \in Threads :
       LET T == threads[t]
           sid == T.session_id
       IN \/ /\ T.pc = "get_check"
             /\ IF sid \in DOMAIN session_store.sessions /\ sid \in DOMAIN session_store.session_expiry
                THEN Goto(t, "get_expiry")
                ELSE Return(t)
             /\ UNCHANGED <<session_store, failure>>
          \/ /\ T.pc = "get_expiry"
             /\ IF sid \notin DOMAIN session_store.session_expiry
                THEN Raise(t, "KeyError")
                ELSE /\ IF now < session_store.session_expiry[sid]
                        THEN Goto(t, "get_touch")
                        ELSE Return(t)
                     /\ UNCHANGED failure
             /\ UNCHANGED session_store
          \/ /\ T.pc = "get_touch"
             /\ IF sid \notin DOMAIN session_store.sessions
                THEN Raise(t, "KeyError") /\ UNCHANGED session_store
                ELSE /\ session_store' = [session_store EXCEPT !.sessions[sid].last_accessed = now]
                     /\ Goto(t, "get_copy")
                     /\ UNCHANGED failure
          \/ /\ T.pc = "get_copy"
             /\ IF sid \notin DOMAIN session_store.sessions
                THEN Raise(t, "KeyError")
                ELSE Return(t) /\ UNCHANGED failure
             /\ UNCHANGED session_store
  /\ UNCHANGED <<analysis_vars, json_vars, login_vars, now, issued, last_call>>

\* update_session after the cleanup: the membership test, the update of the
\* record, the store of last_accessed
UpdateStep ==
  /\ \E t \in Threads :
       LET T == threads[t]
           sid == T.session_id
       IN \/ /\ T.pc = "update_check"
             /\ IF sid \in DOMAIN session_store.sessions
                THEN Goto(t, "update_apply")
                ELSE Return(t)
             /\ UNCHANGED <<session_store, failure>>
          \/ /\ T.pc = "update_apply"
             /\ IF sid \notin DOMAIN session_store.sessions
                THEN Raise(t, "KeyError") /\ UNCHANGED session_store
                ELSE /\ \E tokens \in Tokens :
                          session_store' = [session_store EXCEPT !.sessions[sid].tokens = tokens]
                     /\ Goto(t, "update_touch")
                     /\ UNCHANGED failure
          \/ /\ T.pc = "update_touch"
             /\ IF sid \notin DOMAIN session_store.sessions
                THEN Raise(t, "KeyError") /\ UNCHANGED session_store
                ELSE /\ session_store' = [session_store EXCEPT !.sessions[sid].last_accessed = now]
                     /\ Return(t)
                     /\ UNCHANGED failure
  /\ UNCHANGED <<analysis_vars, json_vars, login_vars, now, issued, last_call>>

\* delete_session: the membership test and the two pops
DeleteStep ==
  /\ \E t \in Threads :
       LET T == threads[t]
           sid == T.session_id
       IN \/ /\ T.pc = "delete_check"
             /\ Goto(t, "delete_sessions")
             /\ UNCHANGED session_store
          \/ /\ T.pc = "delete_sessions"
             /\ session_store' = [session_store EXCEPT !.sessions = PopAll(session_store.sessions, {sid})]
             /\ Goto(t, "delete_expiry")
          \/ /\ T.pc = "delete_expiry"
             /\ session_store' = [session_store EXCEPT
                                    !.session_expiry = PopAll(session_store.session_expiry, {sid})]
             /\ Return(t)
  /\ UNCHANGED <<analysis_vars, json_vars, login_vars, now, issued, last_call, failure>>

NextThreads ==
  \/ Tick
  \/ Call
  \/ CleanupEnter
  \/ CleanupIterate
  \/ CleanupPop
  \/ CreateStep
  \/ GetStep
  \/ UpdateStep
  \/ DeleteStep

SpecThreads == InitStore /\ [][NextThreads]_vars

\* ------------------------------------------------------------------ properties
\* the analysis returned its threads (it did not return the empty-schema error)
Analysed == pc = "done" /\ result # "error"

\* the sort (step 5) is done: complete_paths holds the final threads
Sorted == pc \in {"link", "render", "done"} /\ result # "error"

\* the threads stored so far by the partition
StoredPaths == initial_junction_paths \o finished_linear_paths

\* how often node id n occurs in the node lists of the threads
Occurrences(paths, n) ==
  Cardinality({ik \in (DOMAIN paths) \X (1..(Cardinality(NodeIds) + 1)) :
                 /\ ik[2] \in DOMAIN paths[ik[1]].path
                 /\ paths[ik[1]].path[ik[2]] = n})

IsSection(n) == n \in schema.nodes /\ schema.type[n] = "Section"

\* a connection the data model calls invalid: an endpoint no node of the schema
\* has, or an empty interface name
InvalidConnection(conn) ==
  \/ conn.outputNode \notin schema.nodes
  \/ conn.inputNode \notin schema.nodes
  \/ conn.outputNodeInterface = ""
  \/ conn.inputNodeInterface = ""

\* the schema graph: an edge per valid connection
Edge(u, v) ==
  \E k \in DOMAIN schema.connections :
    /\ ~InvalidConnection(schema.connections[k])
    /\ schema.connections[k].outputNode = u
    /\ schema.connections[k].inputNode = v

\* v is reached from u along at least one and at most k edges
RECURSIVE Reaches(_, _, _)
Reaches(u, v, k) ==
  IF k = 0 THEN FALSE
  ELSE Edge(u, v) \/ \E w \in schema.nodes : Edge(u, w) /\ Reaches(w, v, k - 1)

HasCycle == \E n \in schema.nodes : Reaches(n, n, Cardinality(schema.nodes))

\* C1 (coverage): once the analysis is done, every non-Section node of the
\* schema occurs exactly once in the node lists of the threads, in every schema
\* (cyclic and disconnected graphs included).
C1_Coverage ==
  Analysed =>
    \A n \in schema.nodes : ~IsSection(n) => Occurrences(complete_paths, n) = 1

\* C2: once the analysis is done, no thread's node list holds a Section node.
C2_NoSectionInThread ==
  Analysed =>
    \A i \in DOMAIN complete_paths : \A k \in DOMAIN complete_paths[i].path :
      ~IsSection(complete_paths[i].path[k])

\* indegree and outdegree as the analysis counts them: the adjacency index
InDegree(n) == Len(Get(incoming_connections, n))
OutDegree(n) == Len(Get(outgoing_connections, n))
IsFanNode(n) == n \in nodes_dict /\ ~IsSection(n) /\ (InDegree(n) > 1 \/ OutDegree(n) > 1)

\* C3 (junction isolation): at every point of the analysis no linear thread,
\* stored or running, holds a non-Section node of indegree > 1 or outdegree > 1;
\* when the linear traces start every such node is marked processed and is the
\* single node of exactly one junction thread, and it is in no other thread;
\* the same holds of the final, sorted threads.
C3_JunctionIsolation ==
  /\ \A i \in DOMAIN finished_linear_paths : \A k \in DOMAIN finished_linear_paths[i].path :
       ~IsFanNode(finished_linear_paths[i].path[k])
  /\ \A k \in DOMAIN trace.current_path_nodes : ~IsFanNode(trace.current_path_nodes[k])
  /\ pc = "trace" => ~IsFanNode(trace.current_node_id)
  /\ (pc \in {"starts", "trace", "link", "render"} \/ Analysed) =>
       \A n \in nodes_dict : IsFanNode(n) =>
         /\ n \in processed_nodes
         /\ Cardinality({i \in DOMAIN initial_junction_paths :
                           initial_junction_paths[i].path = <<n>>}) = 1
         /\ Occurrences(StoredPaths, n) = 1
  /\ Sorted =>
       \A n \in nodes_dict : IsFanNode(n) =>
         /\ Occurrences(complete_paths, n) = 1
         /\ \E i \in DOMAIN complete_paths :
              /\ complete_paths[i].path = <<n>>
              /\ IsJunctionPath(complete_paths[i])

\* C3 witness: a finished analysis with a linear thread of two nodes that stops
\* in front of a junction, which has its own singleton thread.
C3_Witness ==
  /\ Analysed
  /\ \E i \in DOMAIN complete_paths : \E j \in DOMAIN complete_paths :
       /\ complete_paths[i].type = "linear_to_junction"
       /\ Len(complete_paths[i].path) >= 2
       /\ IsFanNode(complete_paths[i].ends_at_junction)
       /\ complete_paths[j].path = <<complete_paths[i].ends_at_junction>>

\* C4: after the preprocessing an invalid connection (an endpoint not in the
\* node set, or an empty interface name) has an entry in no outgoing list and
\* in no incoming list.
C4_InvalidConnectionIgnored ==
  (pc # "start" /\ result # "error") =>
    \A k \in DOMAIN schema.connections :
      InvalidConnection(schema.connections[k]) =>
        \A n \in nodes_dict :
          /\ \A i \in DOMAIN outgoing_connections[n] :
               outgoing_connections[n][i].connection_id # schema.connections[k].id
          /\ \A i \in DOMAIN incoming_connections[n] :
               incoming_connections[n][i].connection_id # schema.connections[k].id

\* the schema has a connection whose inputNode is no node of the schema
HasDanglingInput ==
  \E k \in DOMAIN schema.connections : schema.connections[k].inputNode \notin schema.nodes

\* C5: a call on a schema with a dangling connection returns a value (neither
\* function raises) and no thread holds an id that no node has.
C5_DanglingNotFatal ==
  (pc = "done" /\ HasDanglingInput) =>
    /\ result = "ok"
    /\ text_result = "ok"
    /\ \A i \in DOMAIN complete_paths : \A k \in DOMAIN complete_paths[i].path :
         complete_paths[i].path[k] \in schema.nodes

\* C6 (cycle safety): when the schema graph has a directed cycle, the finished
\* analysis reports a thread of type linear_cycle.
C6_CycleReported ==
  (Analysed /\ HasCycle) =>
    \E i \in DOMAIN complete_paths : complete_paths[i].type = "linear_cycle"

\* the iterations of the trace loop made so far: each appends one node
RECURSIVE TotalLength(_)
TotalLength(paths) ==
  IF paths = <<>> THEN 0
  ELSE Len(paths[Len(paths)].path) + TotalLength(SubSeq(paths, 1, Len(paths) - 1))
TraceSteps == TotalLength(finished_linear_paths) + Len(trace.current_path_nodes)

\* C7 (termination bound): every iteration of a linear trace starts at a node
\* that is not processed yet, and the number of trace iterations never exceeds
\* the number of nodes of the schema.
C7_TraceStepsBounded ==
  /\ pc = "trace" =>
       /\ trace.current_node_id \notin processed_nodes
       /\ trace.current_node_id \notin trace.visited_in_this_trace
  /\ TraceSteps <= Cardinality(schema.nodes)

\* the first node of a thread has a position: both coordinates parse
Positioned(path_info) ==
  /\ path_info.path[1] \in schema.nodes
  /\ schema.x[path_info.path[1]] # NoCoord
  /\ schema.y[path_info.path[1]] # NoCoord

\* the (x, y) of the first node of s is lexicographically smaller than that of t
PositionLess(s, t) ==
  LET u == s.path[1]
      v == t.path[1]
  IN \/ schema.x[u] < schema.x[v]
     \/ schema.x[u] = schema.x[v] /\ schema.y[u] < schema.y[v]

\* C8 (global ordering): after the sort the thread ids are 1..N in sequence; of
\* two threads whose first nodes are positioned the one with the smaller
\* (x, y) has the smaller id; a thread whose first node has a missing or
\* unparsable position has a larger id than every thread whose first node is
\* positioned.
C8_GlobalOrdering ==
  Sorted =>
    /\ \A i \in DOMAIN complete_paths : complete_paths[i].id = i
    /\ \A i \in DOMAIN complete_paths : \A j \in DOMAIN complete_paths :
         LET s == complete_paths[i]
             t == complete_paths[j]
         IN /\ (Positioned(s) /\ Positioned(t) /\ PositionLess(s, t)) => s.id < t.id
            /\ (~Positioned(s) /\ Positioned(t)) => s.id > t.id

\* C9 (determinism): a second run of the analysis on the unchanged schema ends
\* with the output of the first run: the same threads under the same ids, the
\* same links, the same outcome.
C9_Determinism ==
  (pc = "done" /\ first_run # <<>>) => Output = first_run[1]

\* the links of a thread as a set of (target thread id, interface) pairs
LinkSet(links) == {<<links[k].path_id, links[k].via_interface>> : k \in DOMAIN links}

\* C10: the two functions report, for every thread, the same set of
\* 'continues in' links (the threads themselves are shared by construction of
\* the model: steps 1 to 5 of the two functions are the same code), and they
\* end the same way.
C10_SameLinks ==
  Analysed =>
    /\ DOMAIN text_path_connections = DOMAIN path_connections
    /\ \A i \in DOMAIN path_connections :
         LinkSet(text_path_connections[i]) = LinkSet(path_connections[i])
    /\ text_result = result

\* the links are built: path_connections is final
Linked == pc \in {"render", "done"} /\ result # "error"

\* node d of the schema, not a Section, is in the node list of a thread
Owned(d) ==
  /\ d \in schema.nodes
  /\ ~IsSection(d)
  /\ \E t \in DOMAIN complete_paths : \E k \in DOMAIN complete_paths[t].path :
       complete_paths[t].path[k] = d

\* the final id of the thread that holds node d
OwnerId(d) ==
  CHOOSE t \in DOMAIN complete_paths :
    \E k \in DOMAIN complete_paths[t].path : complete_paths[t].path[k] = d

\* the entry of an adjacency list comes from a valid connection
ValidEntry(e) ==
  \E k \in DOMAIN schema.connections :
    /\ schema.connections[k].id = e.connection_id
    /\ ~InvalidConnection(schema.connections[k])

\* C11: in the structured analysis every junction thread has, for each valid
\* outgoing edge of its node whose destination is owned by a thread, a link
\* with that thread's final id and the edge's departing interface; every link
\* it has is such a link, once per edge, so an edge into a Section gives none.
C11_JunctionForwardLinks ==
  Linked =>
    \A i \in DOMAIN complete_paths :
      IsJunctionPath(complete_paths[i]) =>
        LET out == Get(outgoing_connections, complete_paths[i].path[1])
            links == path_connections[i]
        IN /\ \A k \in DOMAIN out :
                (ValidEntry(out[k]) /\ Owned(out[k].to_node)) =>
                  \E l \in DOMAIN links :
                    /\ links[l].path_id = OwnerId(out[k].to_node)
                    /\ links[l].via_interface = out[k].from_interface
           /\ \A l \in DOMAIN links :
                \E k \in DOMAIN out :
                  /\ Owned(out[k].to_node)
                  /\ links[l].path_id = OwnerId(out[k].to_node)
                  /\ links[l].via_interface = out[k].from_interface
           /\ \A l1 \in DOMAIN links : \A l2 \in DOMAIN links :
                links[l1] = links[l2] => l1 = l2

\* C12: a thread of type linear_reaches_processed has, among its continuation
\* links, a link to the thread that owns the successor it stopped in front of.
C12_ReachesProcessedLinked ==
  Linked =>
    \A i \in DOMAIN complete_paths :
      complete_paths[i].type = "linear_reaches_processed" =>
        \E l \in DOMAIN path_connections[i] :
          path_connections[i][l].path_id = OwnerId(complete_paths[i].ends_at_junction)

\* the schema is Section S -> D -> E: S a Section, D and E plain nodes, and the
\* two valid connections S -> D and D -> E are all its connections
ScenarioC(S, D, E) ==
  /\ {S, D, E} \subseteq schema.nodes
  /\ S # D /\ D # E /\ S # E
  /\ IsSection(S) /\ ~IsSection(D) /\ ~IsSection(E)
  /\ Len(schema.connections) = 2
  /\ \A k \in DOMAIN schema.connections : ~InvalidConnection(schema.connections[k])
  /\ {<<schema.connections[k].outputNode, schema.connections[k].inputNode>> :
        k \in DOMAIN schema.connections} = {<<S, D>>, <<D, E>>}

\* C13: for Section S -> D -> E, whatever the positions of the nodes, the
\* finished structured analysis has S in no thread and lists the one thread
\* [D, E] under section S.
C13_GroupedUnderSection ==
  \A S \in NodeIds : \A D \in NodeIds : \A E \in NodeIds :
    (pc = "done" /\ ScenarioC(S, D, E)) =>
      /\ result = "ok"
      /\ Occurrences(complete_paths, S) = 0
      /\ \E i \in DOMAIN complete_paths :
           /\ complete_paths[i].path = <<D, E>>
           /\ section_of[i] = S

\* the schema is one plain node A with the single valid connection A -> A
SelfLoopOnly(A) ==
  /\ schema.nodes = {A}
  /\ ~IsSection(A)
  /\ Len(schema.connections) = 1
  /\ ~InvalidConnection(schema.connections[1])
  /\ schema.connections[1].outputNode = A
  /\ schema.connections[1].inputNode = A

\* C14: for a schema whose only node A has a self-loop, the finished analysis
\* has exactly one thread, with node list [A], of type linear_cycle or of a
\* junction type.
C14_SelfLoopThread ==
  \A A \in NodeIds :
    (pc = "done" /\ SelfLoopOnly(A)) =>
      /\ result = "ok"
      /\ Len(complete_paths) = 1
      /\ complete_paths[1].path = <<A>>
      /\ complete_paths[1].type = "linear_cycle" \/ IsJunctionPath(complete_paths[1])

\* degrees over the valid connections of the schema
ValidOut(n) ==
  {k \in DOMAIN schema.connections :
     ~InvalidConnection(schema.connections[k]) /\ schema.connections[k].outputNode = n}
ValidIn(n) ==
  {k \in DOMAIN schema.connections :
     ~InvalidConnection(schema.connections[k]) /\ schema.connections[k].inputNode = n}

\* a plain node: not a Section and not a junction, neither by the degrees the
\* analysis counts nor by the degrees over the valid connections
Plain(n) ==
  /\ n \in schema.nodes
  /\ ~IsSection(n)
  /\ n \notin junction_nodes
  /\ Cardinality(ValidOut(n)) <= 1
  /\ Cardinality(ValidIn(n)) <= 1

\* the schema is the chain A -> B -> C of three plain nodes
ScenarioA(A, B, C) ==
  /\ schema.nodes = {A, B, C}
  /\ A # B /\ B # C /\ A # C
  /\ \A n \in schema.nodes : ~IsSection(n)
  /\ Len(schema.connections) = 2
  /\ \A k \in DOMAIN schema.connections : ~InvalidConnection(schema.connections[k])
  /\ {<<schema.connections[k].outputNode, schema.connections[k].inputNode>> :
        k \in DOMAIN schema.connections} = {<<A, B>>, <<B, C>>}

\* C15 (maximal threads): in the finished analysis, for every valid edge u -> v
\* between two plain nodes with u in a thread, v follows u in that thread; and the
\* chain A -> B -> C is the single thread [A, B, C] with id 1 and type
\* linear_endpoint.
C15_MaximalThreads ==
  Analysed =>
    /\ \A u \in schema.nodes : \A v \in schema.nodes :
         (u # v /\ Edge(u, v) /\ Plain(u) /\ Plain(v)) =>
           \A i \in DOMAIN complete_paths : \A k \in DOMAIN complete_paths[i].path :
             complete_paths[i].path[k] = u =>
               /\ k + 1 \in DOMAIN complete_paths[i].path
               /\ complete_paths[i].path[k + 1] = v
    /\ \A A \in NodeIds : \A B \in NodeIds : \A C \in NodeIds :
         ScenarioA(A, B, C) =>
           /\ Len(complete_paths) = 1
           /\ complete_paths[1].path = <<A, B, C>>
           /\ complete_paths[1].id = 1
           /\ complete_paths[1].type = "linear_endpoint"

\* C16: a JSON entry point returns a value and lets no exception through; for
\* a text that is not well-formed JSON the value is the 'Invalid JSON provided'
\* error, and when the conversion or the analysis raises it is the 'Failed to
\* convert JSON to FlowSchema or parse paths' error.
C16_JsonNeverRaises ==
  pc = "returned" =>
    /\ returned \in {"invalid_json", "failed", "no_nodes", "threads"}
    /\ json_data.kind = "malformed" => returned = "invalid_json"
    /\ json_data.kind = "not_object" => returned = "failed"
    /\ (json_data.kind = "object" /\ Analysis = "raised") => returned = "failed"

CleaningCall == last_call.op \in {"create_session", "get_session", "update_session"}

C18_OwnSessionOnly ==
  login_result.caller # "none" =>
    /\ login_result.own = "none" => login_result.value = "empty"
    /\ login_result.value # "empty" => login_result.value = login_result.own

\* C18, the case of the claim: a browser session without a session id has
\* called while another user's session is valid in the store
C18_Witness ==
  /\ login_result.caller # "none"
  /\ login_result.own = "none"
  /\ session_state[login_result.caller] = 0
  /\ valid_sessions(session_store, now) # {}

\* C19: whatever the interleaving of the store operations of different
\* threads, no operation fails with an exception.
C19_NoOperationFails == failure = "none"

\* n is the immediate target of an edge that leaves a junction or a Section
AfterJunctionOrSection(n) ==
  \E src \in schema.nodes : (IsFanNode(src) \/ IsSection(src)) /\ Edge(src, n)

\* C24: once the threads are sorted, every non-junction, non-Section node that
\* is the immediate target of an edge leaving a junction or a Section is the
\* first node of a linear thread and occurs nowhere else in a thread.
C24_StartsAfterJunctionOrSection ==
  Sorted =>
    \A n \in nodes_dict :
      (~IsFanNode(n) /\ ~IsSection(n) /\ AfterJunctionOrSection(n)) =>
        /\ \E i \in DOMAIN complete_paths :
             IsLinear(complete_paths[i]) /\ complete_paths[i].path[1] = n
        /\ \A i \in DOMAIN complete_paths : \A k \in DOMAIN complete_paths[i].path :
             k > 1 => complete_paths[i].path[k] # n

\* the valid connections of the schema that enter / leave node n
ValidInto(n) ==
  {k \in DOMAIN schema.connections :
     ~InvalidConnection(schema.connections[k]) /\ schema.connections[k].inputNode = n}
ValidFrom(n) ==
  {k \in DOMAIN schema.connections :
     ~InvalidConnection(schema.connections[k]) /\ schema.connections[k].outputNode = n}

\* a junction of the schema graph: a non-Section node with more than one valid
\* connection in, or more than one out
IsJunction(n) ==
  /\ n \in schema.nodes /\ ~IsSection(n)
  /\ (Cardinality(ValidInto(n)) > 1 \/ Cardinality(ValidFrom(n)) > 1)

\* the nodes of the first k entries of a node list
Prefix(path, k) == {path[j] : j \in 1..k}

\* the nodes of the threads stored before the i-th linear thread
StoredBefore(i) ==
  UNION {Range(initial_junction_paths[j].path) : j \in DOMAIN initial_junction_paths}
  \cup UNION {Range(finished_linear_paths[j].path) : j \in 1..(i - 1)}

\* the successor of a node that has an outgoing edge and is not a branch: the
\* target of its first valid connection
Successor(n) ==
  schema.connections[CHOOSE k \in ValidFrom(n) : \A other \in ValidFrom(n) : k <= other].inputNode

\* the first ending condition, in the documented order, that applies at entry k
\* of the node list path, "none" when the trace goes on; earlier holds the
\* nodes of the threads finished before.  Degrees are those of the schema
\* graph, whose edges are the valid connections.
EndCondition(path, k, earlier) ==
  LET n == path[k]
      outdegree == Cardinality(ValidFrom(n))
  IN IF outdegree = 0 THEN "linear_endpoint"
     ELSE IF outdegree > 1 /\ ~IsSection(n) THEN "linear_to_branch"
     ELSE IF IsJunction(Successor(n)) THEN "linear_to_junction"
     ELSE IF Successor(n) \in Prefix(path, k) THEN "linear_cycle"
     ELSE IF Successor(n) \in earlier THEN "linear_reaches_processed"
     ELSE "none"

\* C25: the type of every linear thread is the first ending condition that
\* applies at its last node (endpoint, branch, junction ahead, cycle, reaches a
\* finished thread, in this order), and inside a thread the trace went on to
\* the successor only where no condition applied.
C25_EndTypePriority ==
  \A i \in DOMAIN finished_linear_paths :
    LET p == finished_linear_paths[i]
    IN /\ p.type = EndCondition(p.path, Len(p.path), StoredBefore(i))
       /\ \A k \in 1..(Len(p.path) - 1) :
            /\ EndCondition(p.path, k, StoredBefore(i)) = "none"
            /\ p.path[k + 1] = Successor(p.path[k])

\* the final id of the junction thread whose single node is j (0: none)
JunctionThreadId(j) ==
  LET hits == {t \in DOMAIN complete_paths :
                 IsJunctionPath(complete_paths[t]) /\ complete_paths[t].path = <<j>>}
  IN IF Cardinality(hits) = 1 THEN complete_paths[CHOOSE t \in hits : TRUE].id ELSE 0

\* the one link a thread that stopped in front of a junction must have: the
\* first outgoing edge of its last node names the junction and the interface
JunctionLink(path_info) ==
  LET last == path_info.path[Len(path_info.path)]
      edge == Get(outgoing_connections, last)[1]
  IN [path_id |-> JunctionThreadId(edge.to_node), via_interface |-> edge.from_interface]

\* C26: once the links are built, every thread of type linear_to_junction has
\* exactly one forward link, in both functions: to the singleton thread of the
\* junction after its last node, with that thread's final id and the output
\* interface of the edge that leaves the last node.
C26_LinearToJunctionLink ==
  Linked =>
    \A i \in DOMAIN complete_paths :
      complete_paths[i].type = "linear_to_junction" =>
        /\ JunctionLink(complete_paths[i]).path_id # 0
        /\ complete_paths[JunctionLink(complete_paths[i]).path_id].id
             = JunctionLink(complete_paths[i]).path_id
        /\ path_connections[i] = <<JunctionLink(complete_paths[i])>>
        /\ text_path_connections[i] = <<JunctionLink(complete_paths[i])>>

\* C26 witness: the links are built, a thread of two nodes or more stopped in
\* front of a junction, and the sort gave that junction's thread a final id
\* different from its temporary one
C26_Witness ==
  /\ Linked
  /\ \E i \in DOMAIN complete_paths :
       /\ complete_paths[i].type = "linear_to_junction"
       /\ Len(complete_paths[i].path) > 1
       /\ Len(path_connections[i]) = 1
       /\ LET t == path_connections[i][1].path_id
          IN complete_paths[t].temp_id # complete_paths[t].id

\* the classification (steps 1 to 3) is done
Classified == pc \in {"junctions", "starts", "trace", "link", "render", "done"} /\ result # "error"

\* the root rule of the data model on the graph of the valid connections
IsRoot(n) ==
  \/ ValidInto(n) = {}
  \/ /\ ~IsSection(n)
     /\ \A k \in ValidInto(n) : IsSection(schema.connections[k].outputNode)

\* C27: a node is in root_nodes exactly when it has no incoming connection, or
\* it is not a Section and all its incoming connections come from Sections; a
\* Section with incoming connections is not a root.
C27_RootClassification ==
  Classified =>
    /\ \A n \in schema.nodes : n \in root_nodes <=> IsRoot(n)
    /\ \A n \in schema.nodes : (IsSection(n) /\ ValidInto(n) # {}) => n \notin root_nodes

\* the junction threads are built: the loop of step 4a is over
JunctionsBuilt == pc \in {"starts", "trace", "link", "render", "done"} /\ result # "error"

\* node n has a junction thread of the given type
HasJunctionThread(n, type) ==
  \E i \in DOMAIN initial_junction_paths :
    initial_junction_paths[i].path = <<n>> /\ initial_junction_paths[i].type = type

\* C28: a Section is never a junction and has no junction thread; a
\* non-Section node has a junction thread tagged merge_and_branch_node exactly
\* when indegree > 1 and outdegree > 1, merge_node exactly when only
\* indegree > 1, branch_node exactly when only outdegree > 1.
C28_JunctionClassification ==
  JunctionsBuilt =>
    \A n \in schema.nodes :
      LET in == Cardinality(ValidInto(n))
          out == Cardinality(ValidFrom(n))
      IN IF IsSection(n)
         THEN /\ n \notin junction_nodes
              /\ \A i \in DOMAIN initial_junction_paths :
                   n \notin Range(initial_junction_paths[i].path)
         ELSE /\ HasJunctionThread(n, "merge_and_branch_node") <=> (in > 1 /\ out > 1)
              /\ HasJunctionThread(n, "merge_node") <=> (in > 1 /\ ~(out > 1))
              /\ HasJunctionThread(n, "branch_node") <=> (out > 1 /\ ~(in > 1))


\* ------------------------------------------------------------------ single-path tracer claims
\* the single-path tracer returned a path, or has at least found its root
RootFound == pc \in {"forward", "single_done"} /\ single.root_node_id # None
PathReturned == pc = "single_done" /\ single.returned = "path"

\* the source of the only valid connection into a node of indegree 1
Predecessor(n) == schema.connections[CHOOSE k \in ValidInto(n) : TRUE].outputNode

\* C29: the backward trace starts at a node of minimum parsed x, moves from a
\* node to its unique predecessor only while the indegree is 1 and the
\* predecessor was not visited before, stops at the first node of indegree 0,
\* of indegree above 1, or whose unique predecessor was already visited, and
\* that node is the root; no node is visited twice on the way back.  Degrees
\* are those of the schema graph, whose edges are the valid connections.
C29_BackwardTrace ==
  RootFound =>
    LET back_path == single.back_path
        last == Len(back_path)
    IN /\ back_path[1] \in lowest_x_nodes({n \in schema.nodes : Truthy(n)})
       /\ \A k \in 1..(last - 1) :
            /\ Cardinality(ValidInto(back_path[k])) = 1
            /\ back_path[k + 1] = Predecessor(back_path[k])
            /\ back_path[k + 1] \notin Prefix(back_path, k)
       /\ \/ Cardinality(ValidInto(back_path[last])) # 1
          \/ Predecessor(back_path[last]) \in Prefix(back_path, last)
       /\ single.root_node_id = back_path[last]

\* C30: the reported path starts with the root; every entry but the last has
\* outdegree 1, is followed by its unique successor, is no merge unless it is
\* the root, and occurs nowhere earlier; the last entry is a node seen before,
\* a merge other than the root, or a node of outdegree other than 1; so only
\* the last entry can repeat an earlier one.  Degrees are those of the schema
\* graph, whose edges are the valid connections.
C30_ForwardTrace ==
  PathReturned =>
    LET path_nodes == single.path_nodes
        last == Len(path_nodes)
    IN /\ last >= 1
       /\ path_nodes[1] = single.root_node_id
       /\ \A k \in 1..(last - 1) :
            /\ path_nodes[k] \notin Prefix(path_nodes, k - 1)
            /\ Cardinality(ValidFrom(path_nodes[k])) = 1
            /\ path_nodes[k + 1] = Successor(path_nodes[k])
            /\ path_nodes[k] = single.root_node_id \/ Cardinality(ValidInto(path_nodes[k])) <= 1
       /\ \/ path_nodes[last] \in Prefix(path_nodes, last - 1)
          \/ path_nodes[last] # single.root_node_id /\ Cardinality(ValidInto(path_nodes[last])) > 1
          \/ Cardinality(ValidFrom(path_nodes[last])) # 1
       /\ \A i \in 1..last : \A j \in (i + 1)..last : path_nodes[i] = path_nodes[j] => j = last

\* ------------------------------------------------------------------ retry claims
\* the calls of ai_model.generate made so far that raised
FailedCalls == {k \in DOMAIN retry.calls : ~retry.calls[k].ok}

\* C23: with retries = n >= 1, generate_with_retry makes at most n calls of
\* ai_model.generate; only the last call made can have succeeded, and its
\* result is what the function returns; the function raises only after n
\* failed calls, and then the exception of the n-th call; the i-th wait comes
\* after the i-th failed call and before the next call, so there is none after
\* the last failure.
C23_RetryContract ==
  retry.retries >= 1 =>
    LET made == Len(retry.calls)
    IN /\ made <= retry.retries
       /\ \A k \in 1..(made - 1) : ~retry.calls[k].ok
       /\ \A i \in DOMAIN retry.sleeps :
            /\ retry.sleeps[i].after = i
            /\ i \in FailedCalls
            /\ i < retry.retries
            /\ retry.sleeps[i].wait_time = base_wait * (2 ^ (i - 1))
       /\ retry.pc = "loop" => Len(retry.sleeps) = made
       /\ retry.pc = "except" => Len(retry.sleeps) = made - 1 /\ made \in FailedCalls
       /\ retry.pc = "done" =>
            /\ made >= 1
            /\ Len(retry.sleeps) = made - 1
            /\ IF retry.calls[made].ok
               THEN retry.returned = [kind |-> "return", value |-> retry.calls[made].value]
               ELSE /\ made = retry.retries
                    /\ retry.returned = [kind |-> "raise", value |-> retry.calls[made].value]

\* after two failures and two waits the third and last call failed too and its
\* exception, not the first one, was raised
C23_Witness ==
  /\ retry.pc = "done" /\ retry.retries = 3
  /\ Len(retry.calls) = 3 /\ Len(retry.sleeps) = 2
  /\ retry.returned.kind = "raise"
  /\ retry.calls[1].value # retry.calls[3].value

\* ------------------------------------------------------------------ OAuth claims
\* C22: a callback returns True and creates a session only when its state is
\* the one init_oauth_flow stored in the same browser session; a callback with
\* a missing or different state returns False and creates no session; after a
\* successful callback the browser session holds no state; and no two
\* sessions were created by callbacks that carried the same state value.
C22_StateValidation ==
  /\ callback.count > 0 =>
       /\ callback.returned =>
            /\ callback.expected_state # 0
            /\ callback.state = callback.expected_state
            /\ callback.session_id # 0
            /\ callback.flow_after.state = 0
       /\ (callback.state = 0 \/ callback.state # callback.expected_state) => ~callback.returned
       /\ ~callback.returned => callback.session_id = 0
  /\ Len(granted) = issued
  /\ \A i \in DOMAIN granted :
       /\ granted[i].session_id \in DOMAIN session_store.sessions
       /\ \A j \in DOMAIN granted : granted[i].state = granted[j].state => i = j

\* the callback that carried the state of an earlier successful callback of
\* the same browser session was refused, and the first session is the only one
C22_Witness ==
  /\ Len(granted) = 1
  /\ callback.count >= 2 /\ ~callback.returned
  /\ callback.caller = granted[1].caller
  /\ callback.state = granted[1].state
  /\ DOMAIN session_store.sessions = {granted[1].session_id}

\* ------------------------------------------------------------------ access token claims
\* a call of get_access_token has returned
TokenCallDone == token_call.pc = "idle" /\ token_call.caller # "none"

\* the tokens the returned access token belongs to
ReturnedTokens ==
  IF token_call.fresh # <<>> THEN token_call.fresh[1] ELSE token_call.stored[1]

\* a token whose lifetime is unset or ends after time t
GoodAt(token_info, t) ==
  token_info.expires_in = NoExpiry \/ token_info.issued_at + token_info.expires_in > t

\* C21: get_access_token returns None or an access token that is not expired
\* when it returns; when the stored token was expired and had a refresh token
\* the call asked for a refresh, and after a successful refresh the session
\* holds the new tokens and the new access token is returned; after a failed
\* refresh None is returned and the session holds the tokens it held before.
C21_TokenRefresh ==
  TokenCallDone =>
    /\ token_call.returned # <<>> =>
         /\ token_call.returned[1] = ReturnedTokens.access_token
         /\ GoodAt(ReturnedTokens, token_call.at)
    /\ (/\ token_call.stored # <<>>
        /\ is_expired(token_call.stored[1], token_call.started)
        /\ token_call.stored[1].refresh_token # None) => token_call.refresh # "none"
    /\ token_call.refresh = "ok" =>
         /\ token_call.left = token_call.fresh
         /\ token_call.returned = <<token_call.fresh[1].access_token>>
    /\ token_call.refresh = "failed" =>
         /\ token_call.returned = <<>>
         /\ token_call.left = token_call.stored

\* C39: whatever the value of retries, a finished call of generate_with_retry
\* has called ai_model.generate at least once, and it either returned the
\* value of a call that succeeded or raised the exception of a call that
\* failed.
C39_ReturnsAfterCall ==
  retry.pc = "done" =>
    /\ Len(retry.calls) >= 1
    /\ \E k \in DOMAIN retry.calls :
         /\ retry.calls[k].value = retry.returned.value
         /\ retry.calls[k].ok <=> retry.returned.kind = "return"

\* ------------------------------------------------------------------ expiry across operations
\* the expiry time of a stored session has passed at time t
ExpiryPassed(S, t, session_id) ==
  session_id \in DOMAIN S.session_expiry /\ t >= S.session_expiry[session_id]

\* C37: a call of update_session returns True only for a session that
\* get_session, called at the same moment on the same store, would return; for
\* a session whose expiry time has passed it returns False and the session's
\* stored record, if the cleanup left it in the store, is what it was.
C37_UpdateRespectsExpiry ==
  [][(last_call' # last_call /\ last_call'.op = "update_session") =>
       LET session_id == last_call'.session_id
       IN /\ last_call'.ok => get_session(session_store, now, session_id).value # <<>>
          /\ ExpiryPassed(session_store, now, session_id) =>
               /\ ~last_call'.ok
               /\ session_id \in DOMAIN session_store'.sessions =>
                    session_store'.sessions[session_id] = session_store.sessions[session_id]]_vars

\* ------------------------------------------------------------------ get_data claims
\* C38: a call of secure_user.get_data from a browser session that holds no
\* live, unexpired session (logged out, never logged in, or expired) returns
\* is_logged_in False, and a call that returns claims returns those of the user
\* of the session the calling browser session holds.
C38_DataOfOwnSession ==
  data_result.caller # "none" =>
    /\ data_result.own = "none" => data_result.value = "none"
    /\ data_result.value # "none" => data_result.value = data_result.own

\* C36: when the single-path tracer returns a path, the node of minimum parsed
\* x it started from is one of the nodes of the path.
C36_LowestXOnPath ==
  PathReturned =>
    \E k \in DOMAIN single.path_nodes : single.path_nodes[k] = single.lowest_x_node_id

\* ------------------------------------------------------------------ partition claims
\* no entry of a node list occurs twice in it
NoRepeat(path) == \A i \in DOMAIN path : \A j \in DOMAIN path : path[i] = path[j] => i = j

\* the threads stored so far, followed by the thread the running trace builds
ThreadsSoFar ==
  [i \in DOMAIN initial_junction_paths |-> initial_junction_paths[i].path]
    \o [i \in DOMAIN finished_linear_paths |-> finished_linear_paths[i].path]
    \o (IF trace.current_path_nodes = <<>> THEN <<>> ELSE <<trace.current_path_nodes>>)

\* the node lists of a list of threads are non-empty, without repeats, and
\* pairwise disjoint
Disjoint(paths) ==
  \A i \in DOMAIN paths :
    /\ paths[i] # <<>>
    /\ NoRepeat(paths[i])
    /\ \A j \in DOMAIN paths : i < j => Range(paths[i]) \cap Range(paths[j]) = {}

\* C32: at every point of the partition, and in the sorted list the result is
\* built from, every stored thread is non-empty, no node id occurs twice in a
\* thread, and no node id occurs in two threads (the thread of the running
\* trace included).
C32_Disjointness ==
  /\ Disjoint(ThreadsSoFar)
  /\ Disjoint([i \in DOMAIN complete_paths |-> complete_paths[i].path])

\* the analysis is over and a trace had to stop in front of a node that was
\* already in a thread, while another thread holds more than one node
C32_Witness ==
  /\ Analysed
  /\ \E i \in DOMAIN complete_paths :
       complete_paths[i].type \in {"linear_cycle", "linear_reaches_processed"}
  /\ \E i \in DOMAIN complete_paths : Len(complete_paths[i].path) > 1
  /\ Len(complete_paths) > 1

\* a schema with no Section node whose connections are all valid
PlainValidSchema ==
  /\ \A n \in schema.nodes : ~IsSection(n)
  /\ \A k \in DOMAIN schema.connections : ~InvalidConnection(schema.connections[k])

\* C33: in a schema with no Section node and only valid connections every
\* linear thread, stored during the partition or listed in the final result,
\* has type linear_endpoint or linear_to_junction; none has type linear_cycle
\* or linear_reaches_processed.
C33_NoCycleTypeInPlainSchema ==
  LET Ends == {"linear_endpoint", "linear_to_junction"}
      other_end ==
        \/ \E i \in DOMAIN finished_linear_paths : finished_linear_paths[i].type \notin Ends
        \/ \E i \in DOMAIN complete_paths :
             IsLinear(complete_paths[i]) /\ complete_paths[i].type \notin Ends
  IN other_end => ~PlainValidSchema

\* a plain schema with a cycle through a junction: a linear thread starts
\* right after the junction and ends in front of it
C33_Witness ==
  /\ Analysed /\ PlainValidSchema
  /\ \E i \in DOMAIN complete_paths :
       LET t == complete_paths[i]
       IN /\ t.type = "linear_to_junction"
          /\ \E k \in ValidFrom(t.ends_at_junction) :
               schema.connections[k].inputNode = t.path[1]

\* C34: no thread, stored during the partition or listed in the final result,
\* has type linear_to_branch, linear_error, linear_unknown or unknown_junction,
\* and the node a running trace stands at is never an unprocessed branch point.
C34_NoBranchThread ==
  LET Never == {"linear_to_branch", "linear_error", "linear_unknown", "unknown_junction"}
      current == trace.current_node_id
  IN /\ \A i \in DOMAIN initial_junction_paths : initial_junction_paths[i].type \notin Never
     /\ \A i \in DOMAIN finished_linear_paths : finished_linear_paths[i].type \notin Never
     /\ \A i \in DOMAIN complete_paths : complete_paths[i].type \notin Never
     /\ (pc = "trace" /\ current \notin processed_nodes /\ current \in nodes_dict) =>
          \/ Len(Get(outgoing_connections, current)) <= 1
          \/ schema.type[current] = "Section"

\* the analysis of a schema with a branch point is over: the branch point has
\* its own thread and a linear thread ends in front of it
C34_Witness ==
  /\ Analysed
  /\ \E i \in DOMAIN complete_paths : \E j \in DOMAIN complete_paths :
       /\ complete_paths[i].type = "branch_node"
       /\ complete_paths[j].type = "linear_to_junction"
       /\ complete_paths[j].ends_at_junction = complete_paths[i].path[1]

\* ------------------------------------------------------------------ grouping claims
\* a direct call of parse_all_paths_dict has returned its dictionary
DictReturned == pc = "done" /\ wrapper = "none" /\ result = "ok"
\* a direct call of parse_all_paths has returned its text
TextReturned == pc = "done" /\ wrapper = "none" /\ text_result = "ok"

\* a thread that is more than one Section node
ActualThread(i) ==
  ~(Len(complete_paths[i].path) = 1 /\ IsSection(complete_paths[i].path[1]))

\* the Sections whose x parses and is not right of the x of node n
SectionsLeftOf(n) ==
  {s \in schema.nodes : /\ IsSection(s)
                        /\ schema.x[s] # NoCoord
                        /\ schema.x[s] <= schema.x[n]}
\* the (x, y) a Section is ordered by; a y that does not parse counts as +infinity
SectionKey(s) == <<schema.x[s], IF schema.y[s] # NoCoord THEN schema.y[s] ELSE Inf>>
\* the last of a set of Sections in ascending (x, y) order
LastSections(S) == {s \in S : \A t \in S : ~KeyLess(SectionKey(s), SectionKey(t))}

\* where the grouping rule puts the thread i: sid is a Section id or None
GroupedBySectionX(i, sid) ==
  LET first == complete_paths[i].path[1]
  IN IF first \in schema.nodes /\ schema.x[first] # NoCoord /\ SectionsLeftOf(first) # {}
     THEN sid \in LastSections(SectionsLeftOf(first))
     ELSE sid = None

\* C31: in both renderers a thread whose first node has a parsable x is listed
\* under the last Section, in ascending (x, y) order, whose x is at most that x,
\* and standalone when there is no such Section or the first node has no
\* parsable x; the rule reads positions only, never the connections
C31_SectionGrouping ==
  /\ DictReturned =>
       \A i \in DOMAIN complete_paths :
         ActualThread(i) => GroupedBySectionX(i, section_of[i])
  /\ TextReturned =>
       \A i \in DOMAIN complete_paths :
         ActualThread(i) => GroupedBySectionX(i, text_section_of[i])

\* how often the thread i is listed in the structured output
Listings(i) ==
  {<<k, j>> \in (DOMAIN final_dict.sections) \X (DOMAIN complete_paths) :
     j \in DOMAIN final_dict.sections[k].threads
       /\ final_dict.sections[k].threads[j] = i}
    \cup {<<0, j>> : j \in {j \in DOMAIN final_dict.standalone_threads :
                               final_dict.standalone_threads[j] = i}}
\* the number of threads the structured output lists
ListedThreads ==
  Cardinality({<<k, j>> \in (DOMAIN final_dict.sections) \X (DOMAIN complete_paths) :
                 j \in DOMAIN final_dict.sections[k].threads})
    + Len(final_dict.standalone_threads)

\* C35: the structured output lists every thread exactly once, in the threads
\* of one sections entry or in standalone_threads, and summary.total_threads
\* is the number of threads listed, also when two Sections carry one label
C35_ListedExactlyOnce ==
  DictReturned =>
    /\ \A i \in DOMAIN complete_paths : ActualThread(i) => Cardinality(Listings(i)) = 1
    /\ final_dict.total_threads = ListedThreads

====
